---- MODULE Spec2Model ----
(***************************************************************************)
(* Document decomposition of src/App.tsx: parseStructuredText,             *)
(* extractTextFromPdf, extractTextFromDocx and the two outline adapters as *)
(* step machines over a shared output (doses, warnings) and heading stack  *)
(* (headingPath).                                                          *)
(* Texts are TLA+ strings, handled one character at a time with Head,      *)
(* Tail, SubSeq and Len; lists of lines and doses are tuples of strings.   *)
(***************************************************************************)
EXTENDS Integers, Sequences, FiniteSets, TLC

VARIABLES
    fn,                  \* the function this run executes
    pc,                  \* its position
    text,                \* parseStructuredText: the argument
    lines,               \* parseStructuredText: trimmedText.split('\n')
    i,                   \* parseStructuredText: index into branchStartIndices (1-based)
    lineNo,              \* parseStructuredText: position of the markdownLines loop (1-based)
    currentContentLines, \* parseStructuredText: the content buffer
    pdf,                 \* extractTextFromPdf: the document pdf.js opened
    pageNum,             \* extractTextFromPdf: the page loop's counter
    pageElements,        \* extractTextFromPdf: the page's elements, sorted
    elemNo,              \* extractTextFromPdf: position of the loop over pageElements
    currentBlockLines,   \* extractTextFromPdf: the open block
    lastLine,            \* extractTextFromPdf: <<>> for null, else <<[y, height]>>
    allLines,            \* extractTextAsMindMapFromPdf: the lines of the pages read so far
    svg,                 \* extractTextAsMindMapFromSvg: the text nodes of the drawing
    docx,                \* extractTextFromDocx: the document and what mammoth makes of it
    nodeNo,              \* extractTextFromDocx: position of the loop over body.children
    headingPath,         \* the heading stack, bottom first
    doses,               \* the doses pushed so far
    warnings,            \* the warnings pushed so far
    result,              \* the value returned (read when pc = "done")
    subjects,            \* App: the subjects, each with the ids of its content
    dailyReviews,        \* App: the doses chosen for a date, <<>> for null too
    reviewQueue,         \* App: the queue of doses marked for review
    todayContents,       \* App: the doses of the session on screen
    currentDoseIndex,    \* App: index of the dose on screen (0-based)
    activeSubjectId,     \* App: <<>> for null, else <<id>>
    nextId,              \* the next value of crypto.randomUUID
    setupPending,        \* App: the effect of setupDailyReview is due
    marked,              \* the doses marked for review since the page loaded
    streakData,          \* useStudyStreak: [streak, lastReviewed]
    now,                 \* the clock, in hours (UTC)
    isLoading,           \* DailyReviewCard: the loading flag
    geminiResult,        \* DailyReviewCard: the text shown
    inFlight             \* GeminiAidButton: the calls of handleClick that await

parseVars == <<text, lines, i, lineNo, currentContentLines>>
pdfVars == <<pdf, pageNum, pageElements, elemNo, currentBlockLines, lastLine>>
mmVars == <<allLines, svg>>
docxVars == <<docx, nodeNo>>
outVars == <<headingPath, doses, warnings, result>>
appVars == <<subjects, dailyReviews, reviewQueue, todayContents, currentDoseIndex,
             activeSubjectId, nextId, setupPending, marked, streakData, now>>
aidVars == <<isLoading, geminiResult, inFlight>>
vars == <<fn, pc, parseVars, pdfVars, mmVars, docxVars, outVars, appVars, aidVars>>

----------------------------------------------------------------------------
(* Bounds of the model *)

MaxLines == 3

MaxBlockLines == 4

MaxRows == 3

MaxPages == 2

MaxNodes == 3

----------------------------------------------------------------------------
(* Characters and strings, as the JavaScript engine treats them *)

Digits == {"0", "1", "2", "3", "4", "5", "6", "7", "8", "9"}

Letters ==
    {"a", "b", "c", "d", "e", "f", "g", "h", "i", "j", "k", "l", "m",
     "n", "o", "p", "q", "r", "s", "t", "u", "v", "w", "x", "y", "z",
     "A", "B", "C", "D", "E", "F", "G", "H", "I", "J", "K", "L", "M",
     "N", "O", "P", "Q", "R", "S", "T", "U", "V", "W", "X", "Y", "Z"}

\* \s of a regular expression, and what String.prototype.trim removes
\* (the ASCII members of the class).
IsSpace(c) == c \in {" ", "\n", "\t", "\r"}

\* \d
IsDigit(c) == c \in Digits

\* \w
IsWord(c) == c \in Letters \cup Digits \cup {"_"}

\* [•●▪•*-]: the ASCII members of the bullet class.
IsBullet(c) == c \in {"*", "-"}

\* s.charAt(i - 1): "" outside the string.
CharAt(s, n) == IF n >= 1 /\ n <= Len(s) THEN SubSeq(s, n, n) ELSE ""

Max(S) == CHOOSE m \in S : \A n \in S : n <= m

Min(S) == CHOOSE m \in S : \A n \in S : m <= n

RECURSIVE LeadingWs(_)
\* line.match(/^\s*/)[0].length
LeadingWs(s) ==
    IF Len(s) = 0 THEN 0
    ELSE IF IsSpace(Head(s)) THEN 1 + LeadingWs(Tail(s))
    ELSE 0

RECURSIVE TrailingWs(_)
TrailingWs(s) ==
    IF Len(s) = 0 THEN 0
    ELSE IF IsSpace(CharAt(s, Len(s))) THEN 1 + TrailingWs(SubSeq(s, 1, Len(s) - 1))
    ELSE 0

\* String.prototype.trim
Trim(s) ==
    IF LeadingWs(s) = Len(s) THEN ""
    ELSE SubSeq(s, LeadingWs(s) + 1, Len(s) - TrailingWs(s))

RECURSIVE IndexFrom(_, _, _)
\* the first position at or after n where the one-character c occurs, 0 when none
IndexFrom(s, c, n) ==
    IF n > Len(s) THEN 0
    ELSE IF CharAt(s, n) = c THEN n
    ELSE IndexFrom(s, c, n + 1)

\* s.indexOf(c) + 1 for a one-character c: 0 when c does not occur
IndexOf(s, c) == IndexFrom(s, c, 1)

RECURSIVE Split(_, _)
\* s.split(c) for a one-character separator c
Split(s, c) ==
    IF IndexOf(s, c) = 0 THEN <<s>>
    ELSE <<SubSeq(s, 1, IndexOf(s, c) - 1)>>
             \o Split(SubSeq(s, IndexOf(s, c) + 1, Len(s)), c)

RECURSIVE Join(_, _)
\* Array.prototype.join
Join(seq, sep) ==
    IF Len(seq) = 0 THEN ""
    ELSE IF Len(seq) = 1 THEN seq[1]
    ELSE seq[1] \o sep \o Join(Tail(seq), sep)

\* s.startsWith(p)
StartsWith(s, p) == Len(s) >= Len(p) /\ SubSeq(s, 1, Len(p)) = p

\* s.endsWith(c) for a one-character c
EndsWith(s, c) == Len(s) > 0 /\ CharAt(s, Len(s)) = c

RECURSIVE Flatten(_)
\* the concatenation of a tuple of tuples
Flatten(seqs) ==
    IF Len(seqs) = 0 THEN <<>> ELSE Head(seqs) \o Flatten(Tail(seqs))

\* Array.prototype.map
Map(seq, Op(_)) == [n \in 1..Len(seq) |-> Op(seq[n])]

\* the tuples over S of length at most n
SeqsUpTo(S, n) == UNION {[1..k -> S] : k \in 0..n}

----------------------------------------------------------------------------
(* The regular expressions of the parsers *)

RECURSIVE LeadingDigits(_)
LeadingDigits(s) ==
    IF Len(s) = 0 THEN 0
    ELSE IF IsDigit(Head(s)) THEN 1 + LeadingDigits(Tail(s))
    ELSE 0

RECURSIVE LeadingHashes(_)
LeadingHashes(s) ==
    IF Len(s) = 0 THEN 0
    ELSE IF Head(s) = "#" THEN 1 + LeadingHashes(Tail(s))
    ELSE 0

\* /^\s*([•●▪•*-]|\d+\.|\w\))\s/.test(s)
IsListItem(s) ==
    LET u == SubSeq(s, LeadingWs(s) + 1, Len(s))
        d == LeadingDigits(u)
    IN  \/ IsBullet(CharAt(u, 1)) /\ IsSpace(CharAt(u, 2))
        \/ d > 0 /\ CharAt(u, d + 1) = "." /\ IsSpace(CharAt(u, d + 2))
        \/ IsWord(CharAt(u, 1)) /\ CharAt(u, 2) = ")" /\ IsSpace(CharAt(u, 3))

\* the end of the match of /\n\s*\n/ that starts at n (s[n] is a newline):
\* the last newline of the whitespace run after n, 0 when there is none
BlankMatchEnd(s, n) ==
    LET run == LeadingWs(SubSeq(s, n + 1, Len(s)))
        nls == {j \in (n + 1)..(n + run) : CharAt(s, j) = "\n"}
    IN  IF nls = {} THEN 0 ELSE Max(nls)

RECURSIVE SplitBlankLines(_)
\* s.split(/\n\s*\n/)
SplitBlankLines(s) ==
    LET starts == {n \in 1..Len(s) : CharAt(s, n) = "\n" /\ BlankMatchEnd(s, n) # 0}
    IN  IF starts = {} THEN <<s>>
        ELSE <<SubSeq(s, 1, Min(starts) - 1)>>
                 \o SplitBlankLines(SubSeq(s, BlankMatchEnd(s, Min(starts)) + 1, Len(s)))

----------------------------------------------------------------------------
(* The heading stack *)

RECURSIVE PopWhileLevelAbove(_, _)
\* PopWhileLevelAtLeast popping only the entries of a greater level
PopWhileLevelAbove(path, level) ==
    IF Len(path) > 0 /\ path[Len(path)].level > level
    THEN PopWhileLevelAbove(SubSeq(path, 1, Len(path) - 1), level)
    ELSE path

RECURSIVE PopWhileLevelAtLeast(_, _)
\* while (headingPath.length > 0 && top.level >= level) headingPath.pop()
PopWhileLevelAtLeast(path, level) ==
    IF Len(path) > 0 /\ path[Len(path)].level >= level
    THEN PopWhileLevelAtLeast(SubSeq(path, 1, Len(path) - 1), level)
    ELSE path

\* the pop loop and the push of a heading with an explicit level
PushHeading(path, level, headingText) ==
    Append(PopWhileLevelAtLeast(path, level), [level |-> level, text |-> headingText])

\* Breadcrumb of the heading on top alone
BreadcrumbTopOnly(path) == IF Len(path) = 0 THEN "" ELSE path[Len(path)].text

\* headingPath.map(h => h.text).join(' > ')
Breadcrumb(path) == Join([n \in 1..Len(path) |-> path[n].text], " > ")

----------------------------------------------------------------------------
(* parseStructuredText *)

trimmedText == Trim(text)

getIndentation(line) == LeadingWs(line)

hasIndentation(ls) == \E n \in 1..Len(ls) : getIndentation(ls[n]) > 0

lineData(ls) == [n \in 1..Len(ls) |-> [text |-> ls[n], indent |-> getIndentation(ls[n])]]

indentedLines(ls) == {n \in 1..Len(ls) : getIndentation(ls[n]) > 0}

firstBranchIndent(ls) == Min({getIndentation(ls[n]) : n \in indentedLines(ls)})

\* branchStartIndices with every indented line starting a branch
branchStartIndicesAnyIndent(ls) ==
    SelectSeq([n \in 1..Len(ls) |-> n], LAMBDA n : getIndentation(ls[n]) > 0)

\* the indices (1-based, ascending) of the lines at firstBranchIndent
branchStartIndices(ls) ==
    SelectSeq([n \in 1..Len(ls) |-> n],
              LAMBDA n : getIndentation(ls[n]) = firstBranchIndent(ls))

\* Ancestors with the walk left out: no line is collected
AncestorsNone(ls, j, currentIndent) == <<>>

RECURSIVE AncestorsAtMost(_, _, _)
\* Ancestors collecting also the lines at the indentation seen so far
AncestorsAtMost(ls, j, currentIndent) ==
    IF j < 1 THEN <<>>
    ELSE IF getIndentation(ls[j]) <= currentIndent
         THEN Append(AncestorsAtMost(ls, j - 1, getIndentation(ls[j])), ls[j])
         ELSE AncestorsAtMost(ls, j - 1, currentIndent)

RECURSIVE Ancestors(_, _, _)
\* the backward walk from line j: every line whose indentation is below the
\* smallest seen so far, in document order
Ancestors(ls, j, currentIndent) ==
    IF j < 1 THEN <<>>
    ELSE IF getIndentation(ls[j]) < currentIndent
         THEN Append(Ancestors(ls, j - 1, getIndentation(ls[j])), ls[j])
         ELSE Ancestors(ls, j - 1, currentIndent)

\* the dose of the k-th branch
BranchDose(ls, k) ==
    LET starts == branchStartIndices(ls)
        branchStartIndex == starts[k]
        branchEndIndex == IF k + 1 <= Len(starts) THEN starts[k + 1] ELSE Len(ls) + 1
        branchLines == SubSeq(ls, branchStartIndex, branchEndIndex - 1)
        ancestors == Ancestors(ls, branchStartIndex - 1, getIndentation(ls[branchStartIndex]))
    IN  Join(ancestors \o branchLines, "\n")

getHeadingLevel(line) ==
    LET t == Trim(line)
        n == LeadingHashes(t)
    IN  IF n > 0 /\ IsSpace(CharAt(t, n + 1)) THEN n ELSE 0

\* line.trim().replace(/^#+\s/, '') of a line that is a heading
HeadingText(line) ==
    LET t == Trim(line) IN SubSeq(t, LeadingHashes(t) + 2, Len(t))

\* BlockItems with the isList split left out: a list block stays one dose
BlockItemsKeepList(block) == <<block>>

\* BlockItems with a list being a block in which some line is a list item
BlockItemsSomeList(block) ==
    LET blockLines == Split(block, "\n")
        isList == \E n \in 1..Len(blockLines) : IsListItem(Trim(blockLines[n]))
    IN  IF isList THEN SelectSeq(blockLines, LAMBDA li : Trim(li) # "") ELSE <<block>>

\* the doses of one block of processContentBlock, without their breadcrumb
BlockItems(block) ==
    LET blockLines == Split(block, "\n")
        isList == \A n \in 1..Len(blockLines) : IsListItem(Trim(blockLines[n]))
    IN  IF isList THEN SelectSeq(blockLines, LAMBDA li : Trim(li) # "") ELSE <<block>>

\* the doses processContentBlock pushes
ContentBlockDoses(path, contentLines) ==
    LET content == Trim(Join(contentLines, "\n"))
        blocks == SelectSeq(SplitBlankLines(content), LAMBDA b : Trim(b) # "")
        breadcrumbs == IF Len(path) > 0 THEN Breadcrumb(path) \o "\n\n" ELSE ""
    IN  IF Len(contentLines) = 0 \/ content = "" THEN <<>>
        ELSE Flatten([n \in 1..Len(blocks) |->
                         Map(BlockItems(blocks[n]), LAMBDA item : breadcrumbs \o item)])

\* which return of parseStructuredText the split lines lead to
ParseMode(ls) ==
    IF hasIndentation(ls) /\ indentedLines(ls) = {} THEN "lines"
    ELSE IF hasIndentation(ls) /\ Len(branchStartIndices(ls)) > 0 THEN "branches"
    ELSE "markdown"

\* one turn of the loop over markdownLines, on the loop's state
\* st = [headingPath, currentContentLines, doses]
MarkdownStep(st, line) ==
    IF getHeadingLevel(line) > 0
    THEN [headingPath |-> PushHeading(st.headingPath, getHeadingLevel(line),
                                      HeadingText(line)),
          currentContentLines |-> <<>>,
          doses |-> st.doses \o ContentBlockDoses(st.headingPath, st.currentContentLines)]
    ELSE [st EXCEPT !.currentContentLines = Append(@, line)]

\* MarkdownResult with the fallback to [trimmedText] left out
MarkdownResultNoFallback(ds, trimmed) == ds

\* the return value of the non-indented case
MarkdownResult(ds, trimmed) == IF Len(ds) > 0 THEN ds ELSE <<trimmed>>

RECURSIVE MarkdownLoop(_, _, _)
\* the loop over markdownLines from line n on
MarkdownLoop(ls, n, st) ==
    IF n > Len(ls) THEN st ELSE MarkdownLoop(ls, n + 1, MarkdownStep(st, ls[n]))

\* parseStructuredText as a function of its argument
ParseStructuredText(t) ==
    LET trimmed == Trim(t)
        ls == Split(trimmed, "\n")
        st == MarkdownLoop(ls, 1, [headingPath |-> <<>>, currentContentLines |-> <<>>,
                                   doses |-> <<>>])
    IN  IF trimmed = "" THEN <<>>
        ELSE IF ParseMode(ls) = "lines" THEN ls
        ELSE IF ParseMode(ls) = "branches"
        THEN [k \in 1..Len(branchStartIndices(ls)) |-> BranchDose(ls, k)]
        ELSE MarkdownResult(
                 st.doses \o ContentBlockDoses(st.headingPath, st.currentContentLines),
                 trimmed)

\* the input is trimmed and split and the mode chosen; blank input returns at once
ParseStart ==
    /\ fn = "parseStructuredText" /\ pc = "start"
    /\ IF trimmedText = ""
       THEN /\ result' = <<>>
            /\ pc' = "done"
            /\ UNCHANGED lines
       ELSE /\ lines' = Split(trimmedText, "\n")
            /\ IF ParseMode(lines') = "lines"
               THEN result' = lines' /\ pc' = "done"
               ELSE result' = result /\ pc' = ParseMode(lines')
    /\ i' = 1
    /\ lineNo' = 1
    /\ UNCHANGED <<appVars, aidVars, pdfVars, mmVars, docxVars, fn, text, currentContentLines, headingPath, doses,
                   warnings>>

\* one turn of the loop over branchStartIndices
ParseBranch ==
    /\ fn = "parseStructuredText" /\ pc = "branches"
    /\ i <= Len(branchStartIndices(lines))
    /\ doses' = Append(doses, BranchDose(lines, i))
    /\ i' = i + 1
    /\ UNCHANGED <<appVars, aidVars, pdfVars, mmVars, docxVars, fn, pc, text, lines, lineNo, currentContentLines,
                   headingPath, warnings, result>>

\* return doses, after the last branch
ParseBranchesReturn ==
    /\ fn = "parseStructuredText" /\ pc = "branches"
    /\ i > Len(branchStartIndices(lines))
    /\ result' = doses
    /\ pc' = "done"
    /\ UNCHANGED <<appVars, aidVars, pdfVars, mmVars, docxVars, fn, text, lines, i, lineNo, currentContentLines,
                   headingPath, doses, warnings>>

\* one turn of the loop over markdownLines
ParseMarkdownLine ==
    /\ fn = "parseStructuredText" /\ pc = "markdown"
    /\ lineNo <= Len(lines)
    /\ LET st == MarkdownStep([headingPath |-> headingPath,
                               currentContentLines |-> currentContentLines,
                               doses |-> doses], lines[lineNo])
       IN  /\ headingPath' = st.headingPath
           /\ currentContentLines' = st.currentContentLines
           /\ doses' = st.doses
    /\ lineNo' = lineNo + 1
    /\ UNCHANGED <<appVars, aidVars, pdfVars, mmVars, docxVars, fn, pc, text, lines, i, warnings, result>>

\* the last processContentBlock and the return
ParseMarkdownReturn ==
    /\ fn = "parseStructuredText" /\ pc = "markdown"
    /\ lineNo > Len(lines)
    /\ doses' = doses \o ContentBlockDoses(headingPath, currentContentLines)
    /\ currentContentLines' = <<>>
    /\ result' = MarkdownResult(doses', trimmedText)
    /\ pc' = "done"
    /\ UNCHANGED <<appVars, aidVars, pdfVars, mmVars, docxVars, fn, text, lines, i, lineNo, headingPath, warnings>>

\* nothing pushed, nothing returned yet
OutEmpty == headingPath = <<>> /\ doses = <<>> /\ warnings = <<>> /\ result = <<>>

\* the variables of the outline adapters in a run of another function
OutlineIdle == allLines = <<>> /\ svg = <<>>

\* the variables of App in a run of an extraction function
AppIdle ==
    /\ subjects = <<>>
    /\ dailyReviews = <<>>
    /\ reviewQueue = <<>>
    /\ todayContents = <<>>
    /\ currentDoseIndex = 0
    /\ activeSubjectId = <<>>
    /\ nextId = 1
    /\ setupPending = FALSE
    /\ marked = {}
    /\ streakData = [streak |-> 0, lastReviewed |-> <<>>]
    /\ now = 0

\* the variables of DailyReviewCard in a run of another function
AidIdle == isLoading = FALSE /\ geminiResult = "" /\ inFlight = <<>>

\* the variables of extractTextFromDocx in a run of another function
DocxIdle == docx = <<>> /\ nodeNo = 1

\* the variables of extractTextFromPdf in a run of another function
PdfIdle ==
    /\ pdf = <<>>
    /\ pageNum = 1
    /\ pageElements = <<>>
    /\ elemNo = 1
    /\ currentBlockLines = <<>>
    /\ lastLine = <<>>

\* the lines the inputs are built from
LineSet == {"a", "b ", "", "  ", "  c", "    d", "# H", "## G", "### K", "* x"}

ExampleMarkdown ==
    Join(<<"# Econ", "## Supply", "Prices rise when supply falls.", "",
           "## Demand", "* more buyers", "* less buyers">>, "\n")

ExampleOutline == Join(<<"Root", "  ChildA", "  ChildB">>, "\n")

\* an outline of two roots, each with a child
ExampleForest == Join(<<"Root", "  ChildA", "Other", "  ChildB">>, "\n")

ParseInputs ==
    {Join(ls, "\n") : ls \in SeqsUpTo(LineSet, MaxLines)}
        \cup {ExampleMarkdown, ExampleOutline, ExampleForest}

InitParse ==
    /\ fn = "parseStructuredText"
    /\ pc = "start"
    /\ text \in ParseInputs
    /\ lines = <<>>
    /\ i = 1
    /\ lineNo = 1
    /\ currentContentLines = <<>>
    /\ PdfIdle
    /\ OutlineIdle
    /\ DocxIdle
    /\ OutEmpty
    /\ AppIdle
    /\ AidIdle

NextParse ==
    \/ ParseStart
    \/ ParseBranch
    \/ ParseBranchesReturn
    \/ ParseMarkdownLine
    \/ ParseMarkdownReturn

SpecParse == InitParse /\ [][NextParse]_vars

----------------------------------------------------------------------------
(* extractTextFromPdf: the page's elements (steps 1 to 3) *)

UpperCase == "ABCDEFGHIJKLMNOPQRSTUVWXYZ"

LowerCase == "abcdefghijklmnopqrstuvwxyz"

\* each capital letter's small letter
LowerMap ==
    [c \in {CharAt(UpperCase, n) : n \in 1..Len(UpperCase)} |->
        CharAt(LowerCase, IndexOf(UpperCase, c))]

LowerChar(c) == IF c \in DOMAIN LowerMap THEN LowerMap[c] ELSE c

RECURSIVE ToLower(_)
ToLower(s) == IF Len(s) = 0 THEN "" ELSE LowerChar(Head(s)) \o ToLower(Tail(s))

\* s.includes(sub)
Contains(s, sub) ==
    \E n \in 1..(Len(s) - Len(sub) + 1) : SubSeq(s, n, n + Len(sub) - 1) = sub

\* e placed after the entries of sorted whose key is at most its own
InsertByKey(sorted, e) ==
    LET n == Cardinality({j \in 1..Len(sorted) : sorted[j].key <= e.key})
    IN  SubSeq(sorted, 1, n) \o <<e>> \o SubSeq(sorted, n + 1, Len(sorted))

RECURSIVE StableSortByKey(_)
StableSortByKey(seq) ==
    IF Len(seq) = 0 THEN <<>>
    ELSE InsertByKey(StableSortByKey(SubSeq(seq, 1, Len(seq) - 1)), seq[Len(seq)])

\* Array.prototype.sort((a, b) => Key(a) - Key(b)), which is stable
SortedBy(seq, Key(_)) ==
    LET keyed == [n \in 1..Len(seq) |-> [key |-> Key(seq[n]), val |-> seq[n]]]
        sorted == StableSortByKey(keyed)
    IN  [n \in 1..Len(seq) |-> sorted[n].val]

RECURSIVE Descending(_)
\* the numbers of S, largest first
Descending(S) == IF S = {} THEN <<>> ELSE <<Max(S)>> \o Descending(S \ {Max(S)})

\* Math.round(item.transform[5]); the model counts that coordinate in halves
\* of a unit (ty2), every other length in units
Round2(ty2) == (ty2 + 1) \div 2

\* the text line of the runs whose rounded baseline is y
TextLine(items, y) ==
    LET sortedItems == SortedBy(SelectSeq(items, LAMBDA it : Round2(it.ty2) = y),
                                LAMBDA it : it.tx)
    IN  [type |-> "text",
         text |-> Join([n \in 1..Len(sortedItems) |-> sortedItems[n].str], " "),
         x |-> sortedItems[1].tx,
         y |-> y,
         height |-> Max({sortedItems[n].height : n \in 1..Len(sortedItems)} \cup {0}),
         fontName |-> sortedItems[1].fontName]

\* step 1: the runs grouped into lines, top line first, blank lines dropped
TextLines(items) ==
    LET ys == Descending({Round2(items[n].ty2) : n \in 1..Len(items)})
    IN  SelectSeq([n \in 1..Len(ys) |-> TextLine(items, ys[n])],
                  LAMBDA line : Len(Trim(line.text)) > 0)

transformMatrix(m1, m2) ==
    <<m1[1] * m2[1] + m1[3] * m2[2], m1[2] * m2[1] + m1[4] * m2[2],
      m1[1] * m2[3] + m1[3] * m2[4], m1[2] * m2[3] + m1[4] * m2[4],
      m1[1] * m2[5] + m1[3] * m2[6] + m1[5], m1[2] * m2[5] + m1[4] * m2[6] + m1[6]>>

IdentityMatrix == <<1, 0, 0, 1, 0, 0>>

\* formatSupported taken to hold of every raster
formatSupportedAlways(img) == TRUE

\* whether the raster's byte length is one the painter converts
formatSupported(img) ==
    \/ Len(img.data) = img.width * img.height * 3
    \/ Len(img.data) = img.width * img.height * 4
    \/ Len(img.data) = img.width * img.height

\* the RGBA bytes put on the canvas for a supported raster
Rgba(img) ==
    IF Len(img.data) = img.width * img.height * 3
    THEN Flatten([p \in 1..(img.width * img.height) |->
                     <<img.data[3 * p - 2], img.data[3 * p - 1], img.data[3 * p], 255>>])
    ELSE IF Len(img.data) = img.width * img.height * 4
    THEN img.data
    ELSE Flatten([p \in 1..(img.width * img.height) |->
                     <<img.data[p], img.data[p], img.data[p], 255>>])

\* canvas.toDataURL(): a string that the canvas' bytes determine
toDataURL(rgba) == "data:image/png;base64," \o ToString(rgba)

\* the paintImageXObject branch; st = [matrixStack, currentMatrix, elements, warnings].
\* img.status is "ok", "null" (objs.get gave nothing usable) or "throws"; the
\* canvas always has a 2d context
PaintImage(st, img, page) ==
    IF img.status = "throws"
    THEN [st EXCEPT !.warnings = Append(@, [kind |-> "imageFailed", page |-> page])]
    ELSE IF img.status = "null" THEN st
    ELSE IF formatSupported(img)
    THEN [st EXCEPT !.elements =
             Append(@, [type |-> "image", dataUrl |-> toDataURL(Rgba(img)),
                        y |-> st.currentMatrix[6], width |-> img.width,
                        height |-> img.height])]
    ELSE [st EXCEPT !.warnings =
             Append(@, [kind |-> "imageUnsupported", page |-> page,
                        colorSpace |-> IF img.colorspace # "" THEN img.colorspace
                                       ELSE "desconhecido"])]

\* one turn of the loop over operatorList.fnArray
OperatorStep(st, op, objs, page) ==
    IF op.fn = "save"
    THEN [st EXCEPT !.matrixStack = Append(@, st.currentMatrix)]
    ELSE IF op.fn = "restore"
    THEN IF Len(st.matrixStack) > 0
         THEN [st EXCEPT !.currentMatrix = st.matrixStack[Len(st.matrixStack)],
                         !.matrixStack = SubSeq(@, 1, Len(@) - 1)]
         ELSE [st EXCEPT !.currentMatrix = IdentityMatrix]
    ELSE IF op.fn = "transform"
    THEN [st EXCEPT !.currentMatrix = transformMatrix(@, op.args)]
    ELSE IF op.fn = "paintImageXObject"
    THEN PaintImage(st, objs[op.args[1]], page)
    ELSE st

RECURSIVE OperatorLoop(_, _, _, _, _)
OperatorLoop(ops, n, st, objs, page) ==
    IF n > Len(ops) THEN st
    ELSE OperatorLoop(ops, n + 1, OperatorStep(st, ops[n], objs, page), objs, page)

\* step 2: the image elements and the image warnings of a page
PageImages(pg, page) ==
    OperatorLoop(pg.ops, 1,
                 [matrixStack |-> <<>>, currentMatrix |-> IdentityMatrix,
                  elements |-> <<>>, warnings |-> <<>>],
                 pg.objs, page)

\* SortByY with the lowest element first
SortByYAscending(elements) == SortedBy(elements, LAMBDA e : e.y)

\* step 3: pageElements.sort((a, b) => b.y - a.y)
SortByY(elements) == SortedBy(elements, LAMBDA e : 0 - e.y)

\* steps 1 to 3 on the runs in the order the text layer lists them
PageElements(items, pg, page) == SortByY(TextLines(items) \o PageImages(pg, page).elements)

----------------------------------------------------------------------------
(* extractTextFromPdf: the blocks and the heading stack (step 4) *)

isBold(fontName) ==
    /\ fontName # ""
    /\ \E w \in {"bold", "heavy", "black"} : Contains(ToLower(fontName), w)

isLikelyHeading(el) ==
    LET trimmed == Trim(el.text)
    IN  /\ ~IsListItem(trimmed)
        /\ Len(trimmed) > 2
        /\ Len(trimmed) < 100
        /\ Len(Split(trimmed, " ")) < 15
        /\ ~(CharAt(trimmed, Len(trimmed)) \in {".", "!", "?"})
        /\ (isBold(el.fontName) \/ el.x < 80)

\* verticalGap > height * 0.8, or no previous line
isNewBlock(last, el) ==
    \/ last = <<>>
    \/ /\ last # <<>>
       /\ 10 * ((last[1].y - last[1].height) - el.y) > el.height * 8

\* IsListBlock with > where the test compares with >=
IsListBlockStrict(blockLines) ==
    LET listItemsCount ==
            Cardinality({n \in 1..Len(blockLines) : IsListItem(Trim(blockLines[n]))})
    IN  listItemsCount > 0 /\ 2 * listItemsCount > Len(blockLines)

\* isList of finalizeBlock
IsListBlock(blockLines) ==
    LET listItemsCount ==
            Cardinality({n \in 1..Len(blockLines) : IsListItem(Trim(blockLines[n]))})
    IN  listItemsCount > 0 /\ 2 * listItemsCount >= Len(blockLines)

\* ProseJoin without the hyphen case
ProseJoinNoRepair(acc, line) ==
    IF acc = "" THEN Trim(line) ELSE acc \o " " \o Trim(line)

\* the reducer of finalizeBlock's prose branch
ProseJoin(acc, line) ==
    LET lineText == Trim(line)
        accTrimmed == Trim(acc)
    IN  IF EndsWith(accTrimmed, "-")
        THEN SubSeq(accTrimmed, 1, Len(accTrimmed) - 1) \o lineText
        ELSE IF acc = "" THEN lineText
        ELSE acc \o " " \o lineText

RECURSIVE ProseReduce(_, _, _)
ProseReduce(blockLines, n, acc) ==
    IF n > Len(blockLines) THEN acc
    ELSE ProseReduce(blockLines, n + 1, ProseJoin(acc, blockLines[n]))

\* contentText of finalizeBlock
ContentText(blockLines) ==
    IF IsListBlock(blockLines)
    THEN Join(Map(blockLines, Trim), "\n")
    ELSE Trim(ProseReduce(blockLines, 1, ""))

\* a dose body under the breadcrumb of path
WithBreadcrumb(path, content) ==
    IF Breadcrumb(path) # "" THEN Breadcrumb(path) \o "\n\n" \o content ELSE content

\* what finalizeBlock pushes; it leaves currentBlockLines empty
FinalizeBlockDoses(path, blockLines) ==
    IF Len(blockLines) = 0 THEN <<>>
    ELSE IF ContentText(blockLines) # ""
    THEN <<WithBreadcrumb(path, ContentText(blockLines))>>
    ELSE <<>>

RECURSIVE PopWhileHeightBelow(_, _)
\* PopWhileHeightAtMost popping only the entries of a smaller height
PopWhileHeightBelow(path, height) ==
    IF Len(path) > 0 /\ path[Len(path)].height < height
    THEN PopWhileHeightBelow(SubSeq(path, 1, Len(path) - 1), height)
    ELSE path

RECURSIVE PopWhileHeightAtMost(_, _)
\* while (headingPath.length > 0 && top.height <= height) headingPath.pop()
PopWhileHeightAtMost(path, height) ==
    IF Len(path) > 0 /\ path[Len(path)].height <= height
    THEN PopWhileHeightAtMost(SubSeq(path, 1, Len(path) - 1), height)
    ELSE path

\* the pop loop and the push of a page heading
PushPageHeading(path, height, headingText) ==
    Append(PopWhileHeightAtMost(path, height), [height |-> height, text |-> headingText])

\* TextStep with the heading line opening a block of its own
TextStepHeadingInBlock(st, el) ==
    IF isNewBlock(st.lastLine, el)
    THEN [headingPath |-> IF isLikelyHeading(el)
                          THEN PushPageHeading(st.headingPath, el.height, Trim(el.text))
                          ELSE st.headingPath,
          currentBlockLines |-> <<el.text>>,
          lastLine |-> <<[y |-> el.y, height |-> el.height]>>,
          doses |-> st.doses \o FinalizeBlockDoses(st.headingPath, st.currentBlockLines)]
    ELSE [headingPath |-> st.headingPath,
          currentBlockLines |-> Append(st.currentBlockLines, el.text),
          lastLine |-> <<[y |-> el.y, height |-> el.height]>>,
          doses |-> st.doses]

\* one turn of the loop over pageElements on a text element;
\* st = [headingPath, currentBlockLines, lastLine, doses]
TextStep(st, el) ==
    IF isLikelyHeading(el) /\ isNewBlock(st.lastLine, el)
    THEN [headingPath |-> PushPageHeading(st.headingPath, el.height, Trim(el.text)),
          currentBlockLines |-> <<>>,
          lastLine |-> <<[y |-> el.y, height |-> el.height]>>,
          doses |-> st.doses \o FinalizeBlockDoses(st.headingPath, st.currentBlockLines)]
    ELSE IF isNewBlock(st.lastLine, el)
    THEN [headingPath |-> st.headingPath,
          currentBlockLines |-> <<el.text>>,
          lastLine |-> <<[y |-> el.y, height |-> el.height]>>,
          doses |-> st.doses \o FinalizeBlockDoses(st.headingPath, st.currentBlockLines)]
    ELSE [headingPath |-> st.headingPath,
          currentBlockLines |-> Append(st.currentBlockLines, el.text),
          lastLine |-> <<[y |-> el.y, height |-> el.height]>>,
          doses |-> st.doses]

\* ImageStep with the line before the image still remembered
ImageStepKeepsLastLine(st, el) ==
    [headingPath |-> st.headingPath,
     currentBlockLines |-> <<>>,
     lastLine |-> st.lastLine,
     doses |-> st.doses \o FinalizeBlockDoses(st.headingPath, st.currentBlockLines)
                  \o <<WithBreadcrumb(st.headingPath,
                                      "![Imagem do PDF](" \o el.dataUrl \o ")")>>]

\* one turn of the loop over pageElements on an image element
ImageStep(st, el) ==
    [headingPath |-> st.headingPath,
     currentBlockLines |-> <<>>,
     lastLine |-> <<>>,
     doses |-> st.doses \o FinalizeBlockDoses(st.headingPath, st.currentBlockLines)
                  \o <<WithBreadcrumb(st.headingPath,
                                      "![Imagem do PDF](" \o el.dataUrl \o ")")>>]

ElementStep(st, el) == IF el.type = "text" THEN TextStep(st, el) ELSE ImageStep(st, el)

----------------------------------------------------------------------------
(* extractTextFromPdf: the page loop *)

numPages == Len(pdf.pages)

\* the orders in which the text layer may list a page's runs
ArrivalOrders(items) ==
    {items, [n \in 1..Len(items) |-> items[Len(items) + 1 - n]]}

\* pdfjsLib.getDocument: an unreadable file rejects, and so does the call
PdfOpen ==
    /\ fn = "extractTextFromPdf" /\ pc = "start"
    /\ pc' = IF pdf.readable THEN "pages" ELSE "threw"
    /\ UNCHANGED <<appVars, aidVars, fn, parseVars, mmVars, docxVars, pdfVars, outVars>>

\* PdfPageRaises ending the call instead of going on with the next page
PageFailureAborts == "done"

\* where the page loop goes on after a page that raised
AfterPageFailure == "pages"

\* getPage, getTextContent or getOperatorList raises: the catch of the page loop
PdfPageRaises ==
    /\ fn = "extractTextFromPdf" /\ pc = "pages"
    /\ pageNum <= numPages
    /\ pdf.pages[pageNum].raises
    /\ warnings' = Append(warnings, [kind |-> "pageFailed", page |-> pageNum])
    /\ pageNum' = pageNum + 1
    /\ pc' = AfterPageFailure
    /\ UNCHANGED <<appVars, aidVars, fn, parseVars, mmVars, docxVars, pdf, pageElements, elemNo,
                   currentBlockLines, lastLine, headingPath, doses, result>>

\* steps 1 to 3 of a page, and the fresh state of step 4
PdfReadPage ==
    /\ fn = "extractTextFromPdf" /\ pc = "pages"
    /\ pageNum <= numPages
    /\ ~pdf.pages[pageNum].raises
    /\ \E items \in ArrivalOrders(pdf.pages[pageNum].items) :
           pageElements' = PageElements(items, pdf.pages[pageNum], pageNum)
    /\ warnings' = warnings \o PageImages(pdf.pages[pageNum], pageNum).warnings
    /\ headingPath' = <<>>
    /\ currentBlockLines' = <<>>
    /\ lastLine' = <<>>
    /\ elemNo' = 1
    /\ pc' = "elements"
    /\ UNCHANGED <<appVars, aidVars, fn, parseVars, mmVars, docxVars, pdf, pageNum, doses, result>>

\* one turn of the loop over pageElements
PdfElement ==
    /\ fn = "extractTextFromPdf" /\ pc = "elements"
    /\ elemNo <= Len(pageElements)
    /\ LET st == ElementStep([headingPath |-> headingPath,
                              currentBlockLines |-> currentBlockLines,
                              lastLine |-> lastLine,
                              doses |-> doses], pageElements[elemNo])
       IN  /\ headingPath' = st.headingPath
           /\ currentBlockLines' = st.currentBlockLines
           /\ lastLine' = st.lastLine
           /\ doses' = st.doses
    /\ elemNo' = elemNo + 1
    /\ UNCHANGED <<appVars, aidVars, fn, pc, parseVars, mmVars, docxVars, pdf, pageNum, pageElements, warnings,
                   result>>

\* the last finalizeBlock of a page, and on to the next page
PdfEndPage ==
    /\ fn = "extractTextFromPdf" /\ pc = "elements"
    /\ elemNo > Len(pageElements)
    /\ doses' = doses \o FinalizeBlockDoses(headingPath, currentBlockLines)
    /\ currentBlockLines' = <<>>
    /\ pageNum' = pageNum + 1
    /\ pc' = "pages"
    /\ UNCHANGED <<appVars, aidVars, fn, parseVars, mmVars, docxVars, pdf, pageElements, elemNo, lastLine,
                   headingPath, warnings, result>>

\* return { doses, warnings }
PdfReturn ==
    /\ fn = "extractTextFromPdf" /\ pc = "pages"
    /\ pageNum > numPages
    /\ result' = [doses |-> doses, warnings |-> warnings]
    /\ pc' = "done"
    /\ UNCHANGED <<appVars, aidVars, fn, parseVars, mmVars, docxVars, pdfVars, headingPath, doses, warnings>>

RECURSIVE ElementLoop(_, _, _)
\* the loop over pageElements from its n-th turn on
ElementLoop(elements, n, st) ==
    IF n > Len(elements) THEN st
    ELSE ElementLoop(elements, n + 1, ElementStep(st, elements[n]))

\* step 4 of a page: the doses it pushes
PageDoses(pg, page) ==
    LET st == ElementLoop(PageElements(pg.items, pg, page), 1,
                          [headingPath |-> <<>>, currentBlockLines |-> <<>>,
                           lastLine |-> <<>>, doses |-> <<>>])
    IN  st.doses \o FinalizeBlockDoses(st.headingPath, st.currentBlockLines)

RECURSIVE PageLoop(_, _)
\* doses and warnings after the first n pages
PageLoop(pages, n) ==
    IF n = 0 THEN [doses |-> <<>>, warnings |-> <<>>]
    ELSE LET before == PageLoop(pages, n - 1)
         IN  IF pages[n].raises
             THEN [doses |-> before.doses,
                   warnings |-> Append(before.warnings, [kind |-> "pageFailed", page |-> n])]
             ELSE [doses |-> before.doses \o PageDoses(pages[n], n),
                   warnings |-> before.warnings \o PageImages(pages[n], n).warnings]

\* the value extractTextFromPdf returns for a document that opens
ExtractTextFromPdf(doc) == PageLoop(doc.pages, Len(doc.pages))

----------------------------------------------------------------------------
(* extractTextFromPdf: the documents of the model *)

\* A page is laid out from rows, top row first. A text row is one run, or two
\* runs on one baseline when it has a tail; gap is the distance from the bottom
\* of the row above. An image row paints one raster.
TextRow(str, tail, x, height, fontName, gap) ==
    [kind |-> "text", str |-> str, tail |-> tail, x |-> x, height |-> height,
     fontName |-> fontName, gap |-> gap]

ImageRow(data, colorspace) ==
    [kind |-> "image", gap |-> 20, height |-> 0,
     img |-> [status |-> "ok", width |-> 2, height |-> 1, data |-> data,
              colorspace |-> colorspace]]

RECURSIVE RowY(_, _)
\* the baseline of row n
RowY(rows, n) ==
    IF n = 1 THEN 700 ELSE RowY(rows, n - 1) - rows[n - 1].height - rows[n].gap

ImageRef(n) == "img" \o ToString(n)

RowItems(rows, n) ==
    IF rows[n].kind # "text" THEN <<>>
    ELSE <<[str |-> rows[n].str, tx |-> rows[n].x, ty2 |-> 2 * RowY(rows, n),
            height |-> rows[n].height, fontName |-> rows[n].fontName]>>
         \o (IF rows[n].tail = "" THEN <<>>
             ELSE <<[str |-> rows[n].tail, tx |-> rows[n].x + 40,
                     ty2 |-> 2 * RowY(rows, n) - 1,
                     height |-> rows[n].height, fontName |-> rows[n].fontName]>>)

RowOps(rows, n) ==
    IF rows[n].kind # "image" THEN <<>>
    ELSE <<[fn |-> "save", args |-> <<>>],
           [fn |-> "transform", args |-> <<1, 0, 0, 1, 72, RowY(rows, n)>>],
           [fn |-> "transform", args |-> <<200, 0, 0, 100, 0, 0>>],
           [fn |-> "paintImageXObject", args |-> <<ImageRef(n)>>],
           [fn |-> "restore", args |-> <<>>]>>

PageOf(rows) ==
    [raises |-> FALSE,
     items |-> Flatten([n \in 1..Len(rows) |-> RowItems(rows, n)]),
     ops |-> Flatten([n \in 1..Len(rows) |-> RowOps(rows, n)]),
     objs |-> [r \in {ImageRef(n) : n \in {m \in 1..Len(rows) : rows[m].kind = "image"}} |->
                  rows[CHOOSE n \in 1..Len(rows) : ImageRef(n) = r].img]]

RaisingPage == [raises |-> TRUE, items |-> <<>>, ops |-> <<>>, objs |-> <<>>]

\* the lines of one-block pages: same margin, same size, close together
BlockTexts == {"exam-", "ple text", "* x", "ab.", " 1. z "}

FlowRows == {TextRow(t, "", 100, 10, "g_d0_f1", 2) : t \in BlockTexts}

\* pages of a single column of up to MaxBlockLines lines
FlowDocs ==
    {[readable |-> TRUE, pages |-> <<PageOf(rows)>>] :
        rows \in SeqsUpTo(FlowRows, MaxBlockLines) \ {<<>>}}

\* the rows of laid-out pages: a large heading at the margin, a smaller bold
\* heading, a paragraph line of two runs, a line that continues a block, a
\* heading-like line close under the row above, an RGB image, and an image of
\* two bytes per pixel
HeadingBig == TextRow("Intro", "", 72, 18, "g_d0_f1", 20)

HeadingSmall == TextRow("Scope", "", 100, 14, "Arial-BoldMT", 20)

Paragraph == TextRow("ab", "cd.", 100, 10, "g_d0_f1", 20)

Continuation == TextRow("ef.", "", 100, 10, "g_d0_f1", 2)

CloseHeadingLike == TextRow("Notes", "", 72, 10, "g_d0_f1", 2)

ImageRgb == ImageRow(<<1, 2, 3, 4, 5, 6>>, "DeviceRGB")

ImageTwoBytes == ImageRow(<<1, 2, 3, 4>>, "")

LayoutRows ==
    {HeadingBig, HeadingSmall, Paragraph, Continuation, CloseHeadingLike,
     ImageRgb, ImageTwoBytes}

\* one page of up to MaxRows rows
PageDocs ==
    {[readable |-> TRUE, pages |-> <<PageOf(rows)>>] :
        rows \in SeqsUpTo(LayoutRows, MaxRows)}

\* the pages of documents of several pages: one that raises, an empty one,
\* a heading with its paragraph, a paragraph of two lines, a heading over an
\* image, and an unsupported image over a paragraph
PageKinds ==
    {RaisingPage,
     PageOf(<<>>),
     PageOf(<<HeadingBig, Paragraph>>),
     PageOf(<<Paragraph, Continuation>>),
     PageOf(<<HeadingSmall, ImageRgb>>),
     PageOf(<<ImageTwoBytes, Paragraph>>)}

\* documents of up to MaxPages pages
MultiDocs ==
    {[readable |-> TRUE, pages |-> pages] : pages \in SeqsUpTo(PageKinds, MaxPages)}

UnreadablePdf == [readable |-> FALSE, pages |-> <<>>]

PdfInputs == FlowDocs \cup PageDocs \cup MultiDocs \cup {UnreadablePdf}

\* the variables of parseStructuredText in a run of another function
ParseIdle ==
    /\ text = ""
    /\ lines = <<>>
    /\ i = 1
    /\ lineNo = 1
    /\ currentContentLines = <<>>

InitPdf ==
    /\ fn = "extractTextFromPdf"
    /\ pc = "start"
    /\ pdf \in PdfInputs
    /\ pageNum = 1
    /\ pageElements = <<>>
    /\ elemNo = 1
    /\ currentBlockLines = <<>>
    /\ lastLine = <<>>
    /\ ParseIdle
    /\ OutlineIdle
    /\ DocxIdle
    /\ OutEmpty
    /\ AppIdle
    /\ AidIdle

NextPdf ==
    \/ PdfOpen
    \/ PdfPageRaises
    \/ PdfReadPage
    \/ PdfElement
    \/ PdfEndPage
    \/ PdfReturn

SpecPdf == InitPdf /\ [][NextPdf]_vars

----------------------------------------------------------------------------
(* extractTextFromDocx *)

\* tagName.match(/^H([1-6])$/) and parseInt of its group: 0 when there is no match
HeadingTagLevel(tagName) ==
    IF Len(tagName) = 2 /\ CharAt(tagName, 1) = "H"
    THEN CASE CharAt(tagName, 2) = "1" -> 1
           [] CharAt(tagName, 2) = "2" -> 2
           [] CharAt(tagName, 2) = "3" -> 3
           [] CharAt(tagName, 2) = "4" -> 4
           [] CharAt(tagName, 2) = "5" -> 5
           [] CharAt(tagName, 2) = "6" -> 6
           [] OTHER -> 0
    ELSE 0

\* the heading branch of the loop over body.children
DocxHeading(path, node) ==
    IF Trim(node.textContent) # ""
    THEN PushHeading(path, HeadingTagLevel(node.tagName), Trim(node.textContent))
    ELSE path

\* createDose
CreateDose(path, content) ==
    IF content = "" THEN <<>> ELSE <<WithBreadcrumb(path, content)>>

\* the items of a UL or OL: each LI child numbered by its place among the LI
\* children, the empty ones then filtered out
ListItems(node) ==
    LET prefixed ==
            [n \in 1..Len(node.items) |->
                IF Trim(node.items[n]) = "" THEN ""
                ELSE (IF node.tagName = "UL" THEN "* " ELSE ToString(n) \o ". ")
                         \o Trim(node.items[n])]
    IN  SelectSeq(prefixed, LAMBDA item : item # "")

\* the switch on tagName
DocxNodeDoses(path, node) ==
    IF node.tagName = "P" THEN CreateDose(path, Trim(node.textContent))
    ELSE IF node.tagName \in {"UL", "OL"}
    THEN IF Len(ListItems(node)) > 0
         THEN CreateDose(path, Join(ListItems(node), "\n"))
         ELSE <<>>
    ELSE IF node.tagName = "IMG"
    THEN IF node.src # "" /\ StartsWith(node.src, "data:image")
         THEN CreateDose(path, "![Imagem do DOCX](" \o node.src \o ")")
         ELSE <<>>
    ELSE CreateDose(path, Trim(node.textContent))

RECURSIVE SplitOn(_, _)
\* s.split(sep) for a separator of any length
SplitOn(s, sep) ==
    LET starts == {n \in 1..(Len(s) - Len(sep) + 1) : SubSeq(s, n, n + Len(sep) - 1) = sep}
    IN  IF starts = {} THEN <<s>>
        ELSE <<SubSeq(s, 1, Min(starts) - 1)>>
                 \o SplitOn(SubSeq(s, Min(starts) + Len(sep), Len(s)), sep)

\* body.textContent
BodyText(children) == Join([n \in 1..Len(children) |-> children[n].textContent], "")

\* what the function returns after the loop over body.children
DocxResult(children, ds, ws) ==
    LET rawTextDoses == SelectSeq(SplitOn(BodyText(children), "\n\n"),
                                  LAMBDA p : Trim(p) # "")
    IN  IF Len(ds) = 0 /\ Len(ws) = 0
        THEN IF Trim(BodyText(children)) # "" /\ Len(rawTextDoses) > 0
             THEN [doses |-> rawTextDoses, warnings |-> <<[kind |-> "noStructure"]>>]
             ELSE [doses |-> ds, warnings |-> <<[kind |-> "noText"]>>]
        ELSE [doses |-> ds, warnings |-> ws]

\* messages.filter(msg => msg.type === 'warning').map(msg => msg.message)
ConverterWarnings(messages) ==
    LET kept == SelectSeq(messages, LAMBDA msg : msg.type = "warning")
    IN  [n \in 1..Len(kept) |-> [kind |-> "converter", message |-> kept[n].message]]

\* mammoth.convertToHtml and the DOM of its html; a rejection goes to the catch
DocxConvert ==
    /\ fn = "extractTextFromDocx" /\ pc = "start"
    /\ IF docx.converts
       THEN /\ warnings' = ConverterWarnings(docx.messages)
            /\ pc' = "nodes"
            /\ UNCHANGED result
       ELSE /\ result' = [doses |-> <<>>, warnings |-> <<[kind |-> "docxFailed"]>>]
            /\ pc' = "done"
            /\ UNCHANGED warnings
    /\ UNCHANGED <<appVars, aidVars, fn, parseVars, mmVars, pdfVars, docxVars, headingPath, doses>>

\* one turn of the loop over body.children
DocxNode ==
    /\ fn = "extractTextFromDocx" /\ pc = "nodes"
    /\ nodeNo <= Len(docx.children)
    /\ LET node == docx.children[nodeNo]
       IN  IF HeadingTagLevel(node.tagName) # 0
           THEN /\ headingPath' = DocxHeading(headingPath, node)
                /\ UNCHANGED doses
           ELSE /\ doses' = doses \o DocxNodeDoses(headingPath, node)
                /\ UNCHANGED headingPath
    /\ nodeNo' = nodeNo + 1
    /\ UNCHANGED <<appVars, aidVars, fn, pc, parseVars, mmVars, pdfVars, docx, warnings, result>>

\* the fallback for a body without doses, and the return
DocxReturn ==
    /\ fn = "extractTextFromDocx" /\ pc = "nodes"
    /\ nodeNo > Len(docx.children)
    /\ result' = DocxResult(docx.children, doses, warnings)
    /\ pc' = "done"
    /\ UNCHANGED <<appVars, aidVars, fn, parseVars, mmVars, pdfVars, docxVars, headingPath, doses, warnings>>

DocxElement(tagName, textContent) ==
    [tagName |-> tagName, textContent |-> textContent, items |-> <<>>, src |-> ""]

DocxList(tagName, items) ==
    [tagName |-> tagName, textContent |-> Join(items, ""), items |-> items, src |-> ""]

DocxImage(src) == [tagName |-> "IMG", textContent |-> "", items |-> <<>>, src |-> src]

\* the children of the bodies of the model
DocxNodes ==
    {DocxElement("H1", "Intro"), DocxElement("H2", " Scope "), DocxElement("H3", "Notes"),
     DocxElement("H2", "  "), DocxElement("P", "ab."), DocxElement("TABLE", "cell"),
     DocxList("UL", <<"x", " ", "y">>), DocxList("OL", <<"x", "", "y">>),
     DocxList("OL", <<"", " ">>),
     DocxImage("data:image/png;base64,AA"), DocxImage("http://host/a.png")}

\* what the converter may report
MessageLists ==
    {<<>>, <<[type |-> "warning", message |-> "unrecognised style"]>>,
     <<[type |-> "info", message |-> "note"]>>}

UnconvertibleDocx == [converts |-> FALSE, messages |-> <<>>, children |-> <<>>]

DocxInputs ==
    {[converts |-> TRUE, messages |-> <<>>, children |-> children] :
        children \in SeqsUpTo(DocxNodes, MaxNodes)}
    \cup {[converts |-> TRUE, messages |-> messages, children |-> children] :
            messages \in MessageLists, children \in SeqsUpTo(DocxNodes, 1)}
    \cup {UnconvertibleDocx}

InitDocx ==
    /\ fn = "extractTextFromDocx"
    /\ pc = "start"
    /\ docx \in DocxInputs
    /\ nodeNo = 1
    /\ ParseIdle
    /\ PdfIdle
    /\ OutlineIdle
    /\ OutEmpty
    /\ AppIdle
    /\ AidIdle

NextDocx ==
    \/ DocxConvert
    \/ DocxNode
    \/ DocxReturn

SpecDocx == InitDocx /\ [][NextDocx]_vars

----------------------------------------------------------------------------
(* extractTextAsMindMapFromPdf and extractTextAsMindMapFromSvg *)

INDENT_WIDTH == 8

\* ' '.repeat(n)
RECURSIVE Spaces(_)
Spaces(n) == IF n <= 0 THEN "" ELSE " " \o Spaces(n - 1)

\* Math.round((x - minIndent) / INDENT_WIDTH): halves round up
IndentLevel(x, minIndent) == (2 * (x - minIndent) + INDENT_WIDTH) \div (2 * INDENT_WIDTH)

\* the line of the runs whose rounded baseline is y, joined without a space
MindMapLine(items, y) ==
    LET sortedItems == SortedBy(SelectSeq(items, LAMBDA it : Round2(it.ty2) = y),
                                LAMBDA it : it.tx)
    IN  [text |-> Join([n \in 1..Len(sortedItems) |-> sortedItems[n].str], ""),
         x |-> sortedItems[1].tx]

\* pageLines: the lines of a page, top line first, the blank ones too
PageLines(items) ==
    LET ys == Descending({Round2(items[n].ty2) : n \in 1..Len(items)})
    IN  [n \in 1..Len(ys) |-> MindMapLine(items, ys[n])]

\* the outline of the lines with text: two spaces for each indent level
IndentedOutline(ls) ==
    LET minIndent == Min({ls[n].x : n \in 1..Len(ls)})
    IN  Join([n \in 1..Len(ls) |->
                 Spaces(IndentLevel(ls[n].x, minIndent) * 2) \o ls[n].text], "\n")

\* mindMapText of extractTextAsMindMapFromPdf
PdfMindMapText(ls) ==
    IF Len(ls) = 0 THEN ""
    ELSE IndentedOutline(SelectSeq(ls, LAMBDA line : Trim(line.text) # ""))

\* pdfjsLib.getDocument: an unreadable file rejects, and so does the call
MindMapOpen ==
    /\ fn = "extractTextAsMindMapFromPdf" /\ pc = "start"
    /\ pc' = IF pdf.readable THEN "pages" ELSE "threw"
    /\ UNCHANGED <<appVars, aidVars, fn, parseVars, mmVars, docxVars, pdfVars, outVars>>

\* getPage or getTextContent raises: the catch of the page loop
MindMapPageRaises ==
    /\ fn = "extractTextAsMindMapFromPdf" /\ pc = "pages"
    /\ pageNum <= numPages
    /\ pdf.pages[pageNum].raises
    /\ warnings' = Append(warnings, [kind |-> "pageFailed", page |-> pageNum])
    /\ pageNum' = pageNum + 1
    /\ UNCHANGED <<appVars, aidVars, fn, pc, parseVars, mmVars, docxVars, pdf, pageElements, elemNo,
                   currentBlockLines, lastLine, headingPath, doses, result>>

\* the lines of a page appended to allLines
MindMapReadPage ==
    /\ fn = "extractTextAsMindMapFromPdf" /\ pc = "pages"
    /\ pageNum <= numPages
    /\ ~pdf.pages[pageNum].raises
    /\ \E items \in ArrivalOrders(pdf.pages[pageNum].items) :
           allLines' = allLines \o PageLines(items)
    /\ pageNum' = pageNum + 1
    /\ UNCHANGED <<appVars, aidVars, fn, pc, parseVars, svg, docxVars, pdf, pageElements, elemNo,
                   currentBlockLines, lastLine, outVars>>

\* the outline of allLines, or the empty outline when there are no lines
MindMapReturn ==
    /\ fn = "extractTextAsMindMapFromPdf" /\ pc = "pages"
    /\ pageNum > numPages
    /\ result' = [mindMapText |-> PdfMindMapText(allLines), warnings |-> warnings]
    /\ pc' = "done"
    /\ UNCHANGED <<appVars, aidVars, fn, parseVars, mmVars, docxVars, pdfVars, headingPath, doses, warnings>>

\* a number of extractTextAsMindMapFromSvg is <<n>>, and NaN is <<>>
NaN == <<>>

RECURSIVE DigitsValue(_)
\* the number a string of digits denotes
DigitsValue(s) ==
    IF Len(s) = 0 THEN 0
    ELSE 10 * DigitsValue(SubSeq(s, 1, Len(s) - 1))
             + (CHOOSE d \in 0..9 : ToString(d) = CharAt(s, Len(s)))

\* parseFloat: leading blanks are skipped, then a sign and the longest run of
\* digits are read and the rest is ignored; NaN when there is no digit to read.
\* The attributes of the model have no fraction and no exponent.
ParseFloat(s) ==
    LET t == SubSeq(s, LeadingWs(s) + 1, Len(s))
        signed == CharAt(t, 1) \in {"-", "+"}
        body == IF signed THEN Tail(t) ELSE t
        n == LeadingDigits(body)
        value == DigitsValue(SubSeq(body, 1, n))
    IN  IF n = 0 THEN NaN
        ELSE IF CharAt(t, 1) = "-" THEN <<0 - value>> ELSE <<value>>

\* parseFloat(node.getAttribute(name) || '0'): an attribute is "" when it is
\* absent or empty
AttributeNumber(attr) == ParseFloat(IF attr = "" THEN "0" ELSE attr)

\* the text nodes with text, trimmed, in document order
SvgTextElements(nodes) ==
    LET kept == SelectSeq(nodes, LAMBDA node : Trim(node.textContent) # "")
    IN  [n \in 1..Len(kept) |->
            [text |-> Trim(kept[n].textContent), x |-> AttributeNumber(kept[n].x),
             y |-> AttributeNumber(kept[n].y)]]

\* a - b of two numbers, NaN when one of them is
Minus(a, b) == IF a = NaN \/ b = NaN THEN NaN ELSE <<a[1] - b[1]>>

\* a.y - b.y || a.x - b.x as sort reads it: NaN counts as 0
ComparePosition(a, b) ==
    LET dy == Minus(a.y, b.y)
        dx == Minus(a.x, b.x)
    IN  IF dy # NaN /\ dy # <<0>> THEN dy[1]
        ELSE IF dx = NaN THEN 0 ELSE dx[1]

\* e placed after the entries of sorted that do not come after it
InsertByPosition(sorted, e) ==
    LET n == Cardinality({j \in 1..Len(sorted) : ComparePosition(sorted[j], e) <= 0})
    IN  SubSeq(sorted, 1, n) \o <<e>> \o SubSeq(sorted, n + 1, Len(sorted))

RECURSIVE SortByPosition(_)
\* textElements.sort((a, b) => a.y - b.y || a.x - b.x), which is stable
SortByPosition(els) ==
    IF Len(els) = 0 THEN <<>>
    ELSE InsertByPosition(SortByPosition(SubSeq(els, 1, Len(els) - 1)), els[Len(els)])

\* Math.min(...textElements.map(el => el.x)): NaN when some x is
SvgMinIndent(els) ==
    IF \E n \in 1..Len(els) : els[n].x = NaN THEN NaN
    ELSE <<Min({els[n].x[1] : n \in 1..Len(els)})>>

\* ' '.repeat(indentLevel * 2): no space for NaN
SvgIndent(x, minIndent) ==
    IF Minus(x, minIndent) = NaN THEN ""
    ELSE Spaces(IndentLevel(x[1], minIndent[1]) * 2)

\* the outline of the sorted text elements
SvgIndentedOutline(els) ==
    Join([n \in 1..Len(els) |-> SvgIndent(els[n].x, SvgMinIndent(els)) \o els[n].text],
         "\n")

\* ExtractTextAsMindMapFromSvg with no warning for a drawing without text
ExtractTextAsMindMapFromSvgSilent(nodes) ==
    IF Len(SvgTextElements(nodes)) = 0
    THEN [mindMapText |-> "", warnings |-> <<>>]
    ELSE [mindMapText |-> SvgIndentedOutline(SortByPosition(SvgTextElements(nodes))),
          warnings |-> <<>>]

\* the value extractTextAsMindMapFromSvg returns
ExtractTextAsMindMapFromSvg(nodes) ==
    IF Len(SvgTextElements(nodes)) = 0
    THEN [mindMapText |-> "", warnings |-> <<[kind |-> "noSvgText"]>>]
    ELSE [mindMapText |-> SvgIndentedOutline(SortByPosition(SvgTextElements(nodes))),
          warnings |-> <<>>]

\* the whole of extractTextAsMindMapFromSvg
SvgExtract ==
    /\ fn = "extractTextAsMindMapFromSvg" /\ pc = "start"
    /\ result' = ExtractTextAsMindMapFromSvg(svg)
    /\ pc' = "done"
    /\ UNCHANGED <<appVars, aidVars, fn, parseVars, mmVars, docxVars, pdfVars, headingPath, doses, warnings>>

\* the rows of outline pages: lines at four margins, a line of two runs and a
\* line of blanks left of all the others
OutlineRows ==
    {TextRow("Root", "", 72, 10, "g_d0_f1", 20), TextRow("Kid", "", 76, 10, "g_d0_f1", 20),
     TextRow("Leaf", "", 75, 10, "g_d0_f1", 20), TextRow("Far", "", 100, 10, "g_d0_f1", 20),
     TextRow("ab", "cd", 84, 10, "g_d0_f1", 20), TextRow("  ", "", 60, 10, "g_d0_f1", 20)}

\* one page of up to MaxRows outline rows
OutlinePageDocs ==
    {[readable |-> TRUE, pages |-> <<PageOf(rows)>>] :
        rows \in SeqsUpTo(OutlineRows, MaxRows)}

OutlinePageKinds ==
    {RaisingPage,
     PageOf(<<>>),
     PageOf(<<TextRow("Root", "", 72, 10, "g_d0_f1", 20),
              TextRow("Kid", "", 80, 10, "g_d0_f1", 20)>>),
     PageOf(<<TextRow("  ", "", 60, 10, "g_d0_f1", 20)>>)}

\* documents of up to MaxPages outline pages
OutlineMultiDocs ==
    {[readable |-> TRUE, pages |-> pages] : pages \in SeqsUpTo(OutlinePageKinds, MaxPages)}

MindMapInputs == OutlinePageDocs \cup OutlineMultiDocs \cup {UnreadablePdf}

SvgText(textContent, x, y) == [textContent |-> textContent, x |-> x, y |-> y]

\* the text nodes of the drawings of the model: x in plain numbers and with a
\* unit, x or y absent, a node of blanks, and an x that is no number on a line
\* of its own
SvgNodes ==
    {SvgText("Root", "10", "10"), SvgText(" Kid ", "14px", "20"),
     SvgText("Leaf", "13", "20"), SvgText("Far", "40", ""),
     SvgText("Edge", "", "30"), SvgText("  ", "2", "5"),
     SvgText("Bad", "left", "50")}

SvgInputs == SeqsUpTo(SvgNodes, MaxNodes)

InitMindMap ==
    /\ fn = "extractTextAsMindMapFromPdf"
    /\ pc = "start"
    /\ pdf \in MindMapInputs
    /\ pageNum = 1
    /\ pageElements = <<>>
    /\ elemNo = 1
    /\ currentBlockLines = <<>>
    /\ lastLine = <<>>
    /\ allLines = <<>>
    /\ svg = <<>>
    /\ ParseIdle
    /\ DocxIdle
    /\ OutEmpty
    /\ AppIdle
    /\ AidIdle

InitSvg ==
    /\ fn = "extractTextAsMindMapFromSvg"
    /\ pc = "start"
    /\ svg \in SvgInputs
    /\ allLines = <<>>
    /\ ParseIdle
    /\ PdfIdle
    /\ DocxIdle
    /\ OutEmpty
    /\ AppIdle
    /\ AidIdle

InitOutline == InitMindMap \/ InitSvg

NextOutline ==
    \/ MindMapOpen
    \/ MindMapPageRaises
    \/ MindMapReadPage
    \/ MindMapReturn
    \/ SvgExtract

SpecOutline == InitOutline /\ [][NextOutline]_vars

----------------------------------------------------------------------------
(* App: the subjects, the daily review and the review queue *)

MaxIds == 3

MaxDays == 3

MaxNewDoses == 2

dosesPerDay == 3

ReviewSliceEnd == 10

HoursPerDay == 24

\* the hours of a day at which the model reads the clock
HoursOfDay == {0, 12, 23}

Times == {d * HoursPerDay + h : d \in 1..MaxDays, h \in HoursOfDay}

\* new Date().toISOString().split('T')[0]: the UTC date, <<day>>
IsoDate(time) == <<time \div HoursPerDay>>

Elements(s) == {s[k] : k \in 1..Len(s)}

\* items.slice(0, end)
SliceFromStart(items, end) == SubSeq(items, 1, IF Len(items) < end THEN Len(items) ELSE end)

\* subjects.find(s => s.id === review.subjectId) and subject.content.find
Hydratable(subs, review) ==
    \E s \in Elements(subs) :
        s.id = review.subjectId /\ review.contentId \in Elements(s.content)

\* hydrateContent followed by filter(Boolean), with the type given: the text of
\* a content takes no part in the queue and is left out of the records
hydrateContent(subs, items, type) ==
    LET found == SelectSeq(items, LAMBDA review : Hydratable(subs, review))
    IN  [k \in 1..Len(found) |->
            [id |-> found[k].contentId, subjectId |-> found[k].subjectId, type |-> type]]

\* subjects.flatMap(s => s.content.map(c => ({...c, subjectId: s.id})))
allContent(subs) ==
    UNION {{[id |-> c, subjectId |-> s.id] : c \in Elements(s.content)} : s \in Elements(subs)}

\* allContent.filter(c => !reviewQueue.some(item => item.contentId === c.id))
contentNotInReviewQueue ==
    {c \in allContent(subjects) : \A k \in 1..Len(reviewQueue) : reviewQueue[k].contentId # c.id}

\* shuffled.slice(0, dosesPerDay): the shuffle may leave the candidates in any
\* order
NewReviewsData ==
    LET count == IF Cardinality(contentNotInReviewQueue) < dosesPerDay
                 THEN Cardinality(contentNotInReviewQueue) ELSE dosesPerDay
    IN  {sel \in [1..count -> contentNotInReviewQueue] :
            \A a, b \in 1..count : a # b => sel[a] # sel[b]}

\* the branch of setupDailyReview for a day whose doses are chosen already
SetupSameDay ==
    /\ todayContents' =
           hydrateContent(subjects, SliceFromStart(reviewQueue, ReviewSliceEnd), "review")
           \o hydrateContent(subjects, dailyReviews, "new")
    /\ setupPending' = FALSE
    /\ UNCHANGED <<dailyReviews, currentDoseIndex, marked>>

\* the branch of setupDailyReview that chooses the doses of the day. The
\* effect runs again when setDailyReviews stored another value; a run that
\* finds no content stores [] each time and repeats itself unchanged.
SetupNewDay ==
    LET hydratedReviewItems ==
            hydrateContent(subjects, SliceFromStart(reviewQueue, ReviewSliceEnd), "review")
    IN  /\ IF contentNotInReviewQueue # {}
           THEN \E newReviewsData \in NewReviewsData :
                    /\ dailyReviews' =
                           [k \in 1..Len(newReviewsData) |->
                               [subjectId |-> newReviewsData[k].subjectId,
                                contentId |-> newReviewsData[k].id,
                                date |-> IsoDate(now)]]
                    /\ todayContents' =
                           hydratedReviewItems \o
                           [k \in 1..Len(newReviewsData) |->
                               [id |-> newReviewsData[k].id,
                                subjectId |-> newReviewsData[k].subjectId,
                                type |-> "new"]]
           ELSE /\ todayContents' = hydratedReviewItems
                /\ dailyReviews' = <<>>
        /\ currentDoseIndex' = 0
        /\ setupPending' = (dailyReviews' # dailyReviews)
        /\ marked' = {}

AppRunning == fn = "App"

\* the effect of setupDailyReview, run after a render that changed subjects,
\* dailyReviews or reviewQueue
SetupDailyReview ==
    /\ AppRunning
    /\ setupPending
    /\ IF dailyReviews # <<>> /\ dailyReviews[1].date = IsoDate(now)
       THEN SetupSameDay
       ELSE SetupNewDay
    /\ UNCHANGED <<fn, pc, parseVars, pdfVars, mmVars, docxVars, outVars, aidVars,
                   subjects, reviewQueue, activeSubjectId, nextId, streakData, now>>

\* a user event: React has run the effects of the last render
AppSettled == AppRunning /\ ~setupPending

\* subjects.find(s => s.id === activeSubjectId) || null, as a set
activeSubject == {s \in Elements(subjects) : <<s.id>> = activeSubjectId}

\* the content list of subject id replaced, as subjects.map does it
WithContent(id, content) ==
    [k \in 1..Len(subjects) |->
        IF subjects[k].id = id THEN [subjects[k] EXCEPT !.content = content] ELSE subjects[k]]

\* n values of crypto.randomUUID
NewIds(n) == [k \in 1..n |-> nextId + k - 1]

handleAddSubject ==
    /\ AppSettled
    /\ nextId <= MaxIds
    /\ subjects' = Append(subjects, [id |-> nextId, content |-> <<>>])
    /\ nextId' = nextId + 1
    /\ setupPending' = TRUE
    /\ UNCHANGED <<fn, pc, parseVars, pdfVars, mmVars, docxVars, outVars, aidVars,
                   dailyReviews, reviewQueue, todayContents, currentDoseIndex,
                   activeSubjectId, marked, streakData, now>>

\* selectView: the review view without a subject, or the view of a subject
selectView ==
    /\ AppSettled
    /\ \E target \in {<<>>} \cup {<<s.id>> : s \in Elements(subjects)} :
           /\ target # activeSubjectId
           /\ activeSubjectId' = target
    /\ UNCHANGED <<fn, pc, parseVars, pdfVars, mmVars, docxVars, outVars, aidVars,
                   subjects, dailyReviews, reviewQueue, todayContents, currentDoseIndex,
                   nextId, setupPending, marked, streakData, now>>

handleDeleteSubject ==
    /\ AppSettled
    /\ \E s \in Elements(subjects) :
           /\ subjects' = SelectSeq(subjects, LAMBDA other : other.id # s.id)
           /\ activeSubjectId' = IF activeSubjectId = <<s.id>> THEN <<>> ELSE activeSubjectId
    /\ setupPending' = TRUE
    /\ UNCHANGED <<fn, pc, parseVars, pdfVars, mmVars, docxVars, outVars, aidVars,
                   dailyReviews, reviewQueue, todayContents, currentDoseIndex,
                   nextId, marked, streakData, now>>

\* handleAddContent with count doses from parseStructuredText or from a file;
\* with no dose it closes the dialog and returns
handleAddContent ==
    /\ AppSettled
    /\ \E s \in activeSubject, count \in 1..MaxNewDoses :
           /\ nextId + count - 1 <= MaxIds
           /\ subjects' = WithContent(s.id, s.content \o NewIds(count))
           /\ nextId' = nextId + count
    /\ setupPending' = TRUE
    /\ UNCHANGED <<fn, pc, parseVars, pdfVars, mmVars, docxVars, outVars, aidVars,
                   dailyReviews, reviewQueue, todayContents, currentDoseIndex,
                   activeSubjectId, marked, streakData, now>>

handleDeleteContent ==
    /\ AppSettled
    /\ \E s \in activeSubject :
       \E contentId \in Elements(s.content) :
           subjects' = WithContent(s.id, SelectSeq(s.content, LAMBDA c : c # contentId))
    /\ setupPending' = TRUE
    /\ UNCHANGED <<fn, pc, parseVars, pdfVars, mmVars, docxVars, outVars, aidVars,
                   dailyReviews, reviewQueue, todayContents, currentDoseIndex,
                   activeSubjectId, nextId, marked, streakData, now>>

\* newContentList.splice(originalContentIndex, 1, ...newDoses)
Spliced(content, contentId, newDoses) ==
    LET at == CHOOSE k \in 1..Len(content) : content[k] = contentId
    IN  SubSeq(content, 1, at - 1) \o newDoses \o SubSeq(content, at + 1, Len(content))

\* handleUpdateContent: the text replaced (the ids stay, a new subjects array
\* is stored), or the content replaced by the doses of parseStructuredText
handleUpdateContent ==
    /\ AppSettled
    /\ \E s \in activeSubject :
       \E contentId \in Elements(s.content), reprocessAsMindMap \in BOOLEAN :
           IF ~reprocessAsMindMap
           THEN UNCHANGED <<subjects, nextId>>
           ELSE \E count \in 0..MaxNewDoses :
                    /\ nextId + count - 1 <= MaxIds
                    /\ subjects' = WithContent(s.id, Spliced(s.content, contentId, NewIds(count)))
                    /\ nextId' = nextId + count
    /\ setupPending' = TRUE
    /\ UNCHANGED <<fn, pc, parseVars, pdfVars, mmVars, docxVars, outVars, aidVars,
                   dailyReviews, reviewQueue, todayContents, currentDoseIndex,
                   activeSubjectId, marked, streakData, now>>

ReviewViewOpen == AppSettled /\ activeSubjectId = <<>>

isSessionFinished == currentDoseIndex >= Len(todayContents)

\* todayContents[currentDoseIndex], of a session that is not finished
currentDose == todayContents[currentDoseIndex + 1]

\* completeCurrentDose, from the button of the card (the coins of progress are
\* counted apart from the queue and are left out)
completeCurrentDose ==
    /\ ReviewViewOpen
    /\ ~isSessionFinished
    /\ currentDoseIndex' = currentDoseIndex + 1
    /\ UNCHANGED <<fn, pc, parseVars, pdfVars, mmVars, docxVars, outVars, aidVars,
                   subjects, dailyReviews, reviewQueue, todayContents, activeSubjectId,
                   nextId, setupPending, marked, streakData, now>>

isAlreadyInQueue(contentId) == \E k \in 1..Len(reviewQueue) : reviewQueue[k].contentId = contentId

handleMarkForReview ==
    /\ ReviewViewOpen
    /\ ~isSessionFinished
    /\ reviewQueue' =
           IF isAlreadyInQueue(currentDose.id) THEN reviewQueue
           ELSE Append(reviewQueue,
                       [subjectId |-> currentDose.subjectId, contentId |-> currentDose.id])
    /\ setupPending' = (reviewQueue' # reviewQueue)
    /\ marked' = marked \cup {currentDose.id}
    /\ currentDoseIndex' = currentDoseIndex + 1
    /\ UNCHANGED <<fn, pc, parseVars, pdfVars, mmVars, docxVars, outVars, aidVars,
                   subjects, dailyReviews, todayContents, activeSubjectId, nextId,
                   streakData, now>>

\* the clock changes of the local day before: setDate(getDate() - 1) keeps the
\* local time of day, so the instant it yields is 24 hours back, or 23 or 25
\* hours back where the clocks were changed in between
DstShifts == {-1, 0, 1}

\* markAsCompleted of useStudyStreak, called at time with the clock change shift
markAsCompleted(data, time, shift) ==
    LET today == IsoDate(time)
        yesterdayStr == IsoDate(time - HoursPerDay - shift)
    IN  IF data.lastReviewed = today THEN data
        ELSE IF data.lastReviewed = yesterdayStr
             THEN [streak |-> data.streak + 1, lastReviewed |-> today]
             ELSE [streak |-> 1, lastReviewed |-> today]

hasCompletedToday == streakData.lastReviewed = IsoDate(now)

\* the ids of the entries of todayContents of type 'review'
reviewedItemIds == {c.id : c \in {e \in Elements(todayContents) : e.type = "review"}}

handleFinishReview ==
    /\ ReviewViewOpen
    /\ Len(todayContents) > 0
    /\ isSessionFinished
    /\ ~hasCompletedToday
    /\ \E shift \in DstShifts : streakData' = markAsCompleted(streakData, now, shift)
    /\ reviewQueue' = SelectSeq(reviewQueue, LAMBDA item : item.contentId \notin reviewedItemIds)
    /\ setupPending' = TRUE
    /\ UNCHANGED <<fn, pc, parseVars, pdfVars, mmVars, docxVars, outVars, aidVars,
                   subjects, dailyReviews, todayContents, currentDoseIndex,
                   activeSubjectId, nextId, marked, now>>

\* Math.ceil(diffTime / (1000 * 60 * 60 * 24)), lastReviewed read as midnight UTC
diffDays(lastReviewed, time) ==
    (time - lastReviewed[1] * HoursPerDay + HoursPerDay - 1) \div HoursPerDay

\* the effect of useStudyStreak that runs once on load
StreakOnLoad(data, time) ==
    IF /\ data.lastReviewed # <<>>
       /\ data.lastReviewed # IsoDate(time)
       /\ diffDays(data.lastReviewed, time) > 1
    THEN [data EXCEPT !.streak = 0]
    ELSE data

\* the clock moves on while the page is open
TimePasses ==
    /\ AppSettled
    /\ \E later \in Times : later > now /\ now' = later
    /\ UNCHANGED <<fn, pc, parseVars, pdfVars, mmVars, docxVars, outVars, aidVars,
                   subjects, dailyReviews, reviewQueue, todayContents, currentDoseIndex,
                   activeSubjectId, nextId, setupPending, marked, streakData>>

\* the page is loaded again: what useLocalStorage keeps is read back, the
\* useState values start over and the effects of the first render are due
AppLoad ==
    /\ AppSettled
    /\ todayContents' = <<>>
    /\ currentDoseIndex' = 0
    /\ activeSubjectId' = <<>>
    /\ marked' = {}
    /\ streakData' = StreakOnLoad(streakData, now)
    /\ setupPending' = TRUE
    /\ UNCHANGED <<fn, pc, parseVars, pdfVars, mmVars, docxVars, outVars, aidVars,
                   subjects, dailyReviews, reviewQueue, nextId, now>>

InitApp ==
    /\ fn = "App"
    /\ pc = "mounted"
    /\ subjects = <<>>
    /\ dailyReviews = <<>>
    /\ reviewQueue = <<>>
    /\ todayContents = <<>>
    /\ currentDoseIndex = 0
    /\ activeSubjectId = <<>>
    /\ nextId = 1
    /\ setupPending = TRUE
    /\ marked = {}
    /\ streakData = [streak |-> 0, lastReviewed |-> <<>>]
    /\ now = HoursPerDay
    /\ AidIdle
    /\ ParseIdle
    /\ PdfIdle
    /\ OutlineIdle
    /\ DocxIdle
    /\ OutEmpty

NextApp ==
    \/ SetupDailyReview
    \/ handleAddSubject
    \/ selectView
    \/ handleDeleteSubject
    \/ handleAddContent
    \/ handleDeleteContent
    \/ handleUpdateContent
    \/ completeCurrentDose
    \/ handleMarkForReview
    \/ handleFinishReview
    \/ TimePasses
    \/ AppLoad

SpecApp == InitApp /\ [][NextApp]_vars

----------------------------------------------------------------------------
(* useStudyStreak on its own: the hook called at any time *)

StreakRunning == fn = "useStudyStreak"

\* a call of markAsCompleted
StreakMarkAsCompleted ==
    /\ StreakRunning
    /\ \E shift \in DstShifts : streakData' = markAsCompleted(streakData, now, shift)
    /\ UNCHANGED <<fn, pc, parseVars, pdfVars, mmVars, docxVars, outVars, aidVars,
                   subjects, dailyReviews, reviewQueue, todayContents, currentDoseIndex,
                   activeSubjectId, nextId, setupPending, marked, now>>

StreakTimePasses ==
    /\ StreakRunning
    /\ \E later \in Times : later > now /\ now' = later
    /\ UNCHANGED <<fn, pc, parseVars, pdfVars, mmVars, docxVars, outVars, aidVars,
                   subjects, dailyReviews, reviewQueue, todayContents, currentDoseIndex,
                   activeSubjectId, nextId, setupPending, marked, streakData>>

\* the page is loaded again and the effect of the hook runs
StreakLoad ==
    /\ StreakRunning
    /\ streakData' = StreakOnLoad(streakData, now)
    /\ UNCHANGED <<fn, pc, parseVars, pdfVars, mmVars, docxVars, outVars, aidVars,
                   subjects, dailyReviews, reviewQueue, todayContents, currentDoseIndex,
                   activeSubjectId, nextId, setupPending, marked, now>>

MaxStreak == 3

\* what the hook finds in storage when the page loads: nothing, or a streak
\* and the day of an earlier session
StoredStreaks(time) ==
    {[streak |-> 0, lastReviewed |-> <<>>]} \cup
    {[streak |-> n, lastReviewed |-> <<d>>] :
        n \in 0..MaxStreak, d \in 0..(IsoDate(time)[1] - 1)}

InitStreak ==
    /\ fn = "useStudyStreak"
    /\ pc = "mounted"
    /\ subjects = <<>>
    /\ dailyReviews = <<>>
    /\ reviewQueue = <<>>
    /\ todayContents = <<>>
    /\ currentDoseIndex = 0
    /\ activeSubjectId = <<>>
    /\ nextId = 1
    /\ setupPending = FALSE
    /\ marked = {}
    /\ now \in Times
    /\ streakData \in StoredStreaks(now)
    /\ AidIdle
    /\ ParseIdle
    /\ PdfIdle
    /\ OutlineIdle
    /\ DocxIdle
    /\ OutEmpty

NextStreak == StreakMarkAsCompleted \/ StreakTimePasses \/ StreakLoad

SpecStreak == InitStreak /\ [][NextStreak]_vars

----------------------------------------------------------------------------
(* DailyReviewCard: the study aids of one mounted card *)

MaxRequests == 3

\* the labels of geminiPrompts
geminiPrompts == {"Gerar Pergunta", "Resumir em Topicos", "Termos-Chave", "Criar Analogia"}

\* what generateStudyAid resolves to: the text of the service for the prompt,
\* or the message of its catch block (it never rejects)
generateStudyAid(label) == {"text: " \o label, "Ocorreu um erro ao gerar"}

AidRunning == fn = "DailyReviewCard"

\* handleClick of a GeminiAidButton up to its await: the buttons stay enabled
\* while a request is in flight
handleClick ==
    /\ AidRunning
    /\ Len(inFlight) < MaxRequests
    /\ \E label \in geminiPrompts : inFlight' = Append(inFlight, label)
    /\ isLoading' = TRUE
    /\ geminiResult' = ""
    /\ UNCHANGED <<fn, pc, parseVars, pdfVars, mmVars, docxVars, outVars, appVars>>

\* handleClick after its await: any request in flight may resolve next
handleClickResumes ==
    /\ AidRunning
    /\ \E k \in 1..Len(inFlight) :
           /\ \E aid \in generateStudyAid(inFlight[k]) : geminiResult' = aid
           /\ inFlight' = SubSeq(inFlight, 1, k - 1) \o SubSeq(inFlight, k + 1, Len(inFlight))
    /\ isLoading' = FALSE
    /\ UNCHANGED <<fn, pc, parseVars, pdfVars, mmVars, docxVars, outVars, appVars>>

InitAid ==
    /\ fn = "DailyReviewCard"
    /\ pc = "mounted"
    /\ isLoading = FALSE
    /\ geminiResult = ""
    /\ inFlight = <<>>
    /\ AppIdle
    /\ ParseIdle
    /\ PdfIdle
    /\ OutlineIdle
    /\ DocxIdle
    /\ OutEmpty

NextAid == handleClick \/ handleClickResumes

SpecAid == InitAid /\ [][NextAid]_vars

----------------------------------------------------------------------------
(* The decompositions *)

\* the four extraction functions, each run on its own; App, useStudyStreak and
\* DailyReviewCard have the specifications SpecApp, SpecStreak and SpecAid
Init == InitParse \/ InitPdf \/ InitDocx \/ InitOutline

Next == NextParse \/ NextPdf \/ NextDocx \/ NextOutline

Spec == Init /\ [][Next]_vars

----------------------------------------------------------------------------
(* Properties of parseStructuredText *)

\* s has a character that is not whitespace
HasText(s) == \E n \in 1..Len(s) : ~IsSpace(CharAt(s, n))

ParseDone == fn = "parseStructuredText" /\ pc = "done"

\* C1, as stated: every non-empty input text yields at least one dose.
C1_NonEmptyTextYieldsDose == (ParseDone /\ text # "") => Len(result) >= 1

\* C1, amended: every input text with at least one non-whitespace character
\* yields at least one dose, in the indentation mode, the heading mode and the
\* fallback alike.
C1_NonBlankTextYieldsDose == (ParseDone /\ HasText(text)) => Len(result) >= 1

\* a heading-only input: no dose was pushed and the fallback returned the text
C1_Witness == ParseDone /\ HasText(text) /\ Len(doses) = 0 /\ Len(result) = 1

\* C3, as stated: the Markdown example yields two doses, the bullet list under
\* "Demand" being one of them.
C3_ExampleMarkdownTwoDoses ==
    (ParseDone /\ text = ExampleMarkdown) =>
        result = <<"Econ > Supply\n\nPrices rise when supply falls.",
                   "Econ > Demand\n\n* more buyers\n* less buyers">>

\* C3, amended: the Markdown example yields three doses, the paragraph under
\* "Econ > Supply" and one dose for each bullet under "Econ > Demand".
C3_ExampleMarkdownThreeDoses ==
    (ParseDone /\ text = ExampleMarkdown) =>
        result = <<"Econ > Supply\n\nPrices rise when supply falls.",
                   "Econ > Demand\n\n* more buyers",
                   "Econ > Demand\n\n* less buyers">>

C3_Witness == ParseDone /\ text = ExampleMarkdown /\ Len(result) = 3

\* the run took the indentation mode
IndentationDone == ParseDone /\ \E n \in 1..Len(lines) : LeadingWs(lines[n]) > 0

\* the lines at the smallest nonzero indentation, the sibling branches
SiblingLines ==
    LET indents == {LeadingWs(lines[n]) : n \in 1..Len(lines)} \ {0}
    IN  {n \in 1..Len(lines) : LeadingWs(lines[n]) = Min(indents)}

\* the k-th sibling line
SiblingLine(k) ==
    CHOOSE n \in SiblingLines : Cardinality({m \in SiblingLines : m <= n}) = k

\* the nearest line above line n that is less indented than it
ParentLine(n) == Max({m \in 1..(n - 1) : LeadingWs(lines[m]) < LeadingWs(lines[n])})

\* C4: the outline Root / ChildA / ChildB yields "Root\n  ChildA" and
\* "Root\n  ChildB"; in general each line at the first indentation level yields
\* its own dose, which begins with its ancestor line followed by the line itself.
C4_SiblingBranchesPrefixed ==
    /\ (ParseDone /\ text = ExampleOutline) =>
           result = <<"Root\n  ChildA", "Root\n  ChildB">>
    /\ IndentationDone =>
           /\ Len(result) = Cardinality(SiblingLines)
           /\ \A k \in 1..Len(result) :
                  StartsWith(result[k],
                             lines[ParentLine(SiblingLine(k))] \o "\n" \o lines[SiblingLine(k)])

C4_Witness == ParseDone /\ text = ExampleOutline /\ Len(result) = 2

\* the body of dose d, pushed while the heading stack was path
DoseBody(d, path) ==
    IF Len(path) > 0 THEN SubSeq(d, Len(Breadcrumb(path)) + 3, Len(d)) ELSE d

\* the bodies of the doses this step pushes or, with the fallback, returns
NewBodies ==
    {DoseBody(doses'[k], headingPath) : k \in (Len(doses) + 1)..Len(doses')}
        \cup (IF pc' = "done" /\ Len(doses') = 0
              THEN {result'[k] : k \in 1..Len(result')}
              ELSE {})

\* parsing body b again returns b as the only dose
Reparsed(b) == ParseStructuredText(b) = <<b>>

\* C5, as stated: parsing the body of any returned dose again returns that body
\* as the only dose.
C5_EveryBodyReparsesToItself ==
    [][fn = "parseStructuredText" => \A b \in NewBodies : Reparsed(b)]_vars

----------------------------------------------------------------------------
(* Properties of extractTextFromPdf *)

PdfRunning == fn = "extractTextFromPdf"

PdfDone == PdfRunning /\ pc = "done"

\* the number of list-item lines of a block
ListItemLines(ls) == Cardinality({n \in 1..Len(ls) : IsListItem(Trim(ls[n]))})

\* the block has a list-item line, and its list-item lines are at least half
AtLeastHalfListItems(ls) == ListItemLines(ls) >= 1 /\ 2 * ListItemLines(ls) >= Len(ls)

RECURSIVE Folded(_)
\* the lines folded left to right: a hyphen at the end of what is folded so far
\* is dropped and the next line follows directly, else one space joins them
Folded(ls) ==
    IF Len(ls) = 0 THEN ""
    ELSE IF Len(ls) = 1 THEN Trim(ls[1])
    ELSE LET sofar == Folded(SubSeq(ls, 1, Len(ls) - 1))
             next == Trim(ls[Len(ls)])
         IN  IF EndsWith(sofar, "-")
             THEN SubSeq(sofar, 1, Len(sofar) - 1) \o next
             ELSE sofar \o " " \o next

\* this step closes the open block and pushes its dose
BlockCloses ==
    /\ PdfRunning /\ pc = "elements"
    /\ Len(currentBlockLines) > 0
    /\ Len(doses') > Len(doses)

\* the body of the dose of the block this step closes
ClosedBody == DoseBody(doses'[Len(doses) + 1], headingPath)

\* C6: a prose block is folded left to right, dropping a hyphen that ends the
\* text so far and joining the next line directly, else joining with one space;
\* the lines "exam-" and "ple text" give "example text".
C6_ProseFoldRepairsHyphens ==
    [][(BlockCloses /\ ~AtLeastHalfListItems(currentBlockLines)) =>
           /\ ClosedBody = Folded(currentBlockLines)
           /\ currentBlockLines = <<"exam-", "ple text">> => ClosedBody = "example text"]_vars

C6_Witness == PdfDone /\ result.doses = <<"example text">>

UnsupportedPaint(pg, op) ==
    /\ op.fn = "paintImageXObject"
    /\ pg.objs[op.args[1]].status = "ok"
    /\ LET img == pg.objs[op.args[1]]
       IN  Len(img.data) \notin {img.width * img.height * 3, img.width * img.height * 4,
                                 img.width * img.height}

\* the numbers of the pages of the unsupported paints, one entry for each paint
UnsupportedPaintPages(pages) ==
    Flatten([n \in 1..Len(pages) |->
                [k \in 1..Len(SelectSeq(pages[n].ops,
                                        LAMBDA op : UnsupportedPaint(pages[n], op))) |-> n]])

\* the document without its unsupported paints
WithoutUnsupportedPaints(doc) ==
    [doc EXCEPT !.pages =
        [n \in 1..Len(doc.pages) |->
            [doc.pages[n] EXCEPT !.ops =
                SelectSeq(@, LAMBDA op : ~UnsupportedPaint(doc.pages[n], op))]]]

\* the pages named by the warnings of one kind, in the order of the warnings
WarnedPages(ws, kind) ==
    LET kept == SelectSeq(ws, LAMBDA w : w.kind = kind)
    IN  [n \in 1..Len(kept) |-> kept[n].page]

RaisingPages(pages) ==
    LET marks == [n \in 1..Len(pages) |-> IF pages[n].raises THEN <<n>> ELSE <<>>]
    IN  Flatten(marks)

\* the document without the pages that raise
WithoutRaisingPages(doc) ==
    [doc EXCEPT !.pages = SelectSeq(@, LAMBDA pg : ~pg.raises)]

\* C9: each page that raises adds no dose and exactly one page-failure warning
\* naming it, the pages after it are processed, and the call returns the doses
\* of the pages that do not raise.
C9_PageFailureIsolated ==
    /\ (PdfRunning /\ pc = "threw") => ~pdf.readable
    /\ (PdfDone /\ pdf.readable) =>
           /\ doses = ExtractTextFromPdf(WithoutRaisingPages(pdf)).doses
           /\ WarnedPages(warnings, "pageFailed") = RaisingPages(pdf.pages)
           /\ result = [doses |-> doses, warnings |-> warnings]

\* a page that raises before a page with a heading and a paragraph
C9_Witness ==
    /\ PdfDone
    /\ pdf.pages = <<RaisingPage, PageOf(<<HeadingBig, Paragraph>>)>>
    /\ result.doses = <<"Intro\n\nab cd.">>
    /\ WarnedPages(result.warnings, "pageFailed") = <<1>>

\* C10, as stated: the heading stack at the start of a page is the stack at the
\* end of the page before it.
C10_HeadingStackCarriedAcrossPages ==
    [][(PdfRunning /\ pc = "pages" /\ pc' = "elements") => headingPath' = headingPath]_vars

----------------------------------------------------------------------------
(* Properties of the heading stack *)

\* the nesting depth of a stack entry: its level, or how small its glyphs are
Depth(entry) == IF PdfRunning THEN 0 - entry.height ELSE entry.level

\* the entries of path are strictly deeper from bottom to top
StackMonotonic(path) ==
    \A k \in 1..(Len(path) - 1) : Depth(path[k]) < Depth(path[k + 1])

\* this step processes a heading
HeadingProcessed == headingPath' # headingPath /\ headingPath' # <<>>

\* the entries under the new top stood at the bottom of the stack before the
\* step, and each is less deep than the new top
SurvivorsBelowTop ==
    LET top == headingPath'[Len(headingPath')]
        rest == SubSeq(headingPath', 1, Len(headingPath') - 1)
    IN  /\ Len(rest) <= Len(headingPath)
        /\ rest = SubSeq(headingPath, 1, Len(rest))
        /\ \A k \in 1..Len(rest) : Depth(rest[k]) < Depth(top)

\* C2: the heading stack is strictly monotonic in nesting depth from bottom to
\* top at every point of a run of the three decompositions, and once a heading
\* is processed every entry that survived from before it is less deep than it.
C2_HeadingStackMonotonic ==
    [][StackMonotonic(headingPath') /\ (HeadingProcessed => SurvivorsBelowTop)]_vars

\* H1, H3, H2: the H2 popped the H3 and left the H1 under it
C2_Witness ==
    /\ fn = "extractTextFromDocx"
    /\ nodeNo = 4
    /\ docx.children[2].tagName = "H3"
    /\ headingPath = <<[level |-> 1, text |-> "Intro"], [level |-> 2, text |-> "Scope"]>>

----------------------------------------------------------------------------
(* Properties of the breadcrumb *)

DocxRunning == fn = "extractTextFromDocx"

RECURSIVE StackTexts(_)
\* the texts of the stack, bottom first, with " > " between them
StackTexts(path) ==
    IF Len(path) = 0 THEN ""
    ELSE IF Len(path) = 1 THEN path[1].text
    ELSE StackTexts(SubSeq(path, 1, Len(path) - 1)) \o " > " \o path[Len(path)].text

\* body under the stack as it stands before this step
UnderStack(body) ==
    IF Len(headingPath) > 0 THEN StackTexts(headingPath) \o "\n\n" \o body ELSE body

\* the doses this step pushes
Pushed == SubSeq(doses', Len(doses) + 1, Len(doses'))

\* the bodies of the doses this step pushes: what it pushes from an empty stack
PushedBodies ==
    IF PdfRunning /\ pc = "elements" /\ elemNo <= Len(pageElements)
    THEN ElementStep([headingPath |-> <<>>, currentBlockLines |-> currentBlockLines,
                      lastLine |-> lastLine, doses |-> <<>>], pageElements[elemNo]).doses
    ELSE IF PdfRunning /\ pc = "elements"
    THEN FinalizeBlockDoses(<<>>, currentBlockLines)
    ELSE IF DocxRunning /\ pc = "nodes" /\ nodeNo <= Len(docx.children)
    THEN IF HeadingTagLevel(docx.children[nodeNo].tagName) # 0 THEN <<>>
         ELSE DocxNodeDoses(<<>>, docx.children[nodeNo])
    ELSE IF fn = "parseStructuredText" /\ pc = "markdown" /\ lineNo <= Len(lines)
    THEN MarkdownStep([headingPath |-> <<>>, currentContentLines |-> currentContentLines,
                       doses |-> <<>>], lines[lineNo]).doses
    ELSE IF fn = "parseStructuredText" /\ pc = "markdown"
    THEN ContentBlockDoses(<<>>, currentContentLines)
    ELSE <<>>

\* the run is one of the three that emit doses under breadcrumbs
BreadcrumbRun ==
    PdfRunning \/ DocxRunning \/ (fn = "parseStructuredText" /\ pc = "markdown")

\* every dose this step pushes is its body under the stack before the step
PushedUnderStack ==
    BreadcrumbRun => Pushed = [k \in 1..Len(PushedBodies) |-> UnderStack(PushedBodies[k])]

\* the doses this step returns
Returned == IF fn = "parseStructuredText" THEN result' ELSE result'.doses

\* this step returns doses that were never pushed: the fallback
FallbackReturned == BreadcrumbRun /\ pc' = "done" /\ Returned # doses'

\* C11, as stated: every dose of the three, pushed or returned by a fallback, is
\* its body under the heading stack as it stood when the dose was emitted.
C11_EveryDoseUnderStack ==
    [][/\ PushedUnderStack
       /\ FallbackReturned =>
              \A k \in 1..Len(Returned) :
                  Len(headingPath) > 0 =>
                      StartsWith(Returned[k], StackTexts(headingPath) \o "\n\n")]_vars

\* C11, amended: every dose pushed by the three is its body under the heading
\* stack as it stood before any heading that follows the body; the doses of a
\* fallback (the trimmed input, the pieces of the raw text) carry no breadcrumb.
C11_PushedDoseUnderStack ==
    [][/\ PushedUnderStack
       /\ FallbackReturned =>
              /\ fn = "parseStructuredText" => Returned = <<Trim(text)>>
              /\ DocxRunning =>
                     Returned = SelectSeq(SplitOn(BodyText(docx.children), "\n\n"),
                                          LAMBDA piece : Trim(piece) # "")]_vars

\* a paragraph pushed under two headings
C11_Witness ==
    /\ DocxRunning
    /\ Len(headingPath) = 2
    /\ Len(doses) > 0
    /\ doses[Len(doses)] = "Intro > Scope\n\nab."

----------------------------------------------------------------------------
(* Properties of the empty and the unreadable document *)

MindMapRunning == fn = "extractTextAsMindMapFromPdf"

SvgRunning == fn = "extractTextAsMindMapFromSvg"

\* the adapter returned no dose, or the empty outline
EmptyResult ==
    /\ pc = "done"
    /\ \/ (PdfRunning \/ DocxRunning) /\ result.doses = <<>>
       \/ (MindMapRunning \/ SvgRunning) /\ result.mindMapText = ""

\* C12, as stated: an adapter given an unreadable document returns, and an
\* empty result of the four adapters always comes with a warning.
C12_EmptyResultHasWarning ==
    /\ pc # "threw"
    /\ EmptyResult => Len(result.warnings) > 0

----------------------------------------------------------------------------
(* Properties of extractTextFromDocx *)

DocxDone == DocxRunning /\ pc = "done"

\* the raw text of the body split on blank lines, the blank pieces dropped
RawTextPieces == SelectSeq(SplitOn(BodyText(docx.children), "\n\n"),
                           LAMBDA piece : Trim(piece) # "")

\* C13, as stated: when the walk pushed no dose and the body has raw text, the
\* pieces of the raw text are returned with a warning that no structure was
\* found, whatever the converter reported.
C13_RawTextFallbackAlways ==
    (DocxDone /\ docx.converts /\ doses = <<>> /\ Trim(BodyText(docx.children)) # "") =>
        /\ result.doses = RawTextPieces
        /\ \E k \in 1..Len(result.warnings) : result.warnings[k].kind = "noStructure"

----------------------------------------------------------------------------
(* Properties of the heading-outline mode *)

MarkdownRunning == fn = "parseStructuredText" /\ pc = "markdown"

RECURSIVE LineRuns(_, _)
\* the maximal runs of lines with text among ls, after the run that is open
LineRuns(ls, open) ==
    IF Len(ls) = 0 THEN (IF Len(open) > 0 THEN <<open>> ELSE <<>>)
    ELSE IF Trim(Head(ls)) = ""
    THEN (IF Len(open) > 0 THEN <<open>> ELSE <<>>) \o LineRuns(Tail(ls), <<>>)
    ELSE LineRuns(Tail(ls), Append(open, Head(ls)))

\* a run of list-item lines gives each line, any other run its lines together
RunBodies(run) ==
    IF \A n \in 1..Len(run) : IsListItem(Trim(run[n]))
    THEN run
    ELSE <<Join(run, "\n")>>

\* the bodies of the blocks of the content buffer
BufferBodies ==
    LET runs == LineRuns(currentContentLines, <<>>)
    IN  Flatten([n \in 1..Len(runs) |-> RunBodies(runs[n])])

\* this step meets a heading or the end of the input
BufferFinalized ==
    /\ MarkdownRunning
    /\ lineNo > Len(lines) \/ getHeadingLevel(lines[lineNo]) > 0

\* C14: the content buffer is finalized on each heading and at the end of the
\* input, and only then; its blocks are its runs of lines between blank lines;
\* a block of list-item lines only yields one dose for each line and any other
\* block yields one dose, each the block's text up to surrounding whitespace.
C14_BlocksOfBuffer ==
    [][MarkdownRunning =>
           IF BufferFinalized
           THEN /\ Len(Pushed) = Len(BufferBodies)
                /\ \A k \in 1..Len(Pushed) :
                       Trim(DoseBody(Pushed[k], headingPath)) = Trim(BufferBodies[k])
           ELSE Pushed = <<>>]_vars

\* a block of two list items closed by a heading
C14_Witness ==
    /\ ParseDone
    /\ text = "* x\n* x\n# H"
    /\ doses = <<"* x", "* x">>

----------------------------------------------------------------------------
(* Properties of the indentation mode *)

\* the smallest indentation above zero among ls, and 0 when no line is indented
MinNonzeroIndent(ls) ==
    LET indents == {LeadingWs(ls[n]) : n \in 1..Len(ls)} \ {0}
    IN  IF indents = {} THEN 0 ELSE CHOOSE m \in indents : \A d \in indents : m <= d

\* the indices of the lines at the smallest indentation above zero
BranchStarts(ls) == {n \in 1..Len(ls) : LeadingWs(ls[n]) = MinNonzeroIndent(ls)}

\* the k-th smallest index of a set of indices
KthIndex(S, k) == CHOOSE n \in S : Cardinality({m \in S : m < n}) = k - 1

\* the lines from the k-th branch start up to the next one or the end of ls
BranchPart(ls, k) ==
    LET S == BranchStarts(ls)
        last == IF k < Cardinality(S) THEN KthIndex(S, k + 1) - 1 ELSE Len(ls)
    IN  SubSeq(ls, KthIndex(S, k), last)

IndentationModeDone ==
    /\ ParseDone
    /\ \E n \in 1..Len(lines) : LeadingWs(lines[n]) > 0

\* C15: when some line of the input is indented, there is one dose for each
\* line at the smallest indentation above zero, in the order of the input, and
\* the k-th dose ends with the lines from the k-th such line up to the next
\* such line or the end of the input, after lines that are not indented.
C15_OneDosePerBranchStart ==
    IndentationModeDone =>
        /\ Len(result) = Cardinality(BranchStarts(lines))
        /\ \A k \in 1..Len(result) :
               LET doseLines == Split(result[k], "\n")
                   part == BranchPart(lines, k)
                   before == Len(doseLines) - Len(part)
               IN  /\ before >= 0
                   /\ SubSeq(doseLines, before + 1, Len(doseLines)) = part
                   /\ \A n \in 1..before : LeadingWs(doseLines[n]) = 0

\* two branches under one root line
C15_Witness ==
    /\ IndentationModeDone
    /\ Cardinality(BranchStarts(lines)) = 2
    /\ Len(result) = 2
    /\ result[1] # result[2]

----------------------------------------------------------------------------
(* Properties of the page headings, the images and the order of the doses *)

\* this step is a turn of the element loop
ElementTurn == PdfRunning /\ pc = "elements" /\ elemNo <= Len(pageElements)

\* the element of this turn
Element == pageElements[elemNo]

\* this turn is on a line that passes the heading test
HeadingLikeTurn == ElementTurn /\ Element.type = "text" /\ isLikelyHeading(Element)

\* the line is the first after the start of the page or after an image, or lies
\* more than 0.8 of its height under the line before it
StartsNewBlock ==
    \/ lastLine = <<>>
    \/ /\ lastLine # <<>>
       /\ 10 * (lastLine[1].y - lastLine[1].height - Element.y) > 8 * Element.height

\* the open block is closed: what is pushed is its text under the stack before
\* the step, and nothing when there is no open block
OpenBlockClosedUnderOldStack ==
    /\ Len(Pushed) <= 1
    /\ Len(currentBlockLines) = 0 => Pushed = <<>>
    /\ \A k \in 1..Len(Pushed) :
           /\ Pushed[k] = UnderStack(ContentText(currentBlockLines))
           /\ ContentText(currentBlockLines) # ""

\* the entries the step leaves under the new top
KeptUnderTop == SubSeq(headingPath', 1, Len(headingPath') - 1)

\* C16: a line that passes the heading test and starts a new block closes the
\* open block under the old breadcrumb, pops the stack while the height of its
\* top is at most the line's, is pushed and joins no block; a heading-like line
\* that does not start a new block joins the open block, and the stack and the
\* doses stay as they are.
C16_HeadingLineHandling ==
    [][HeadingLikeTurn =>
           IF StartsNewBlock
           THEN /\ OpenBlockClosedUnderOldStack
                /\ currentBlockLines' = <<>>
                /\ Len(headingPath') >= 1
                /\ headingPath'[Len(headingPath')] =
                       [height |-> Element.height, text |-> Trim(Element.text)]
                /\ Len(KeptUnderTop) <= Len(headingPath)
                /\ KeptUnderTop = SubSeq(headingPath, 1, Len(KeptUnderTop))
                /\ \A n \in Len(KeptUnderTop) + 1..Len(headingPath) :
                       headingPath[n].height <= Element.height
                /\ Len(KeptUnderTop) > 0 =>
                       KeptUnderTop[Len(KeptUnderTop)].height > Element.height
           ELSE /\ currentBlockLines' = Append(currentBlockLines, Element.text)
                /\ headingPath' = headingPath
                /\ Pushed = <<>>]_vars

\* a heading-like line close under the smaller heading became body text, and
\* the large heading closed that block and popped the smaller heading
C16_Witness ==
    /\ PdfRunning /\ pc = "elements"
    /\ headingPath = <<[height |-> 18, text |-> "Intro"]>>
    /\ currentBlockLines = <<>>
    /\ doses = <<"Scope\n\nNotes">>

\* this turn pushes a page heading
PageHeadingPushed == HeadingLikeTurn /\ StartsNewBlock

\* C17, as stated: pushing a page heading of height H pops every entry of the
\* stack whose height is at least H.
C17_PopsHeightAtLeast ==
    [][PageHeadingPushed =>
           KeptUnderTop = SelectSeq(headingPath, LAMBDA e : e.height < Element.height)]_vars

\* C17, amended: pushing a page heading of height H pops every entry of the
\* stack whose height is at most H, and no other entry.
C17_PopsHeightAtMost ==
    [][PageHeadingPushed =>
           KeptUnderTop = SelectSeq(headingPath, LAMBDA e : e.height > Element.height)]_vars

\* a second heading of height 14 popped the first and kept the one of height 18
C17_Witness ==
    /\ PdfRunning /\ pc = "elements"
    /\ elemNo = 4
    /\ pageElements[2].type = "text" /\ pageElements[2].text = "Scope"
    /\ pageElements[3].type = "text" /\ pageElements[3].text = "Scope"
    /\ headingPath = <<[height |-> 18, text |-> "Intro"], [height |-> 14, text |-> "Scope"]>>

\* this turn is on an image
ImageTurn == ElementTurn /\ Element.type = "image"

\* the dose of the image of this turn under the stack before the step
ImageDose == UnderStack("![Imagem do PDF](" \o Element.dataUrl \o ")")

\* the open block has text to push
OpenBlockHasText == Len(currentBlockLines) > 0 /\ ContentText(currentBlockLines) # ""

\* C18: an image closes the open block before its own dose, pushes one dose,
\* the reference to the image under the current breadcrumb, and forgets the
\* line before it; the text line after an image starts a block of its own or
\* becomes a heading, so text above and below an image is never in one dose.
C18_ImageBreaksTextFlow ==
    [][/\ ImageTurn =>
              /\ Pushed = IF OpenBlockHasText
                          THEN <<UnderStack(ContentText(currentBlockLines)), ImageDose>>
                          ELSE <<ImageDose>>
              /\ currentBlockLines' = <<>>
              /\ lastLine' = <<>>
              /\ headingPath' = headingPath
       /\ (ElementTurn /\ elemNo > 1 /\ pageElements[elemNo - 1].type = "image"
               /\ Element.type = "text") =>
              /\ currentBlockLines' \in {<<>>, <<Element.text>>}
              /\ Pushed = <<>>]_vars

\* a paragraph, an image and a line close under it gave three doses
C18_Witness ==
    /\ PdfDone
    /\ Len(result.doses) = 3
    /\ result.doses[1] = "ab cd."
    /\ StartsWith(result.doses[2], "![Imagem do PDF](")
    /\ result.doses[3] = "ef."

\* the elements of the page from the top down: no element lies above one
\* that comes before it
TopToBottom(elements) ==
    \A m, n \in 1..Len(elements) : m < n => elements[m].y >= elements[n].y

\* the text lines and the images of the page are all there, in one sequence
LinesAndImagesMerged ==
    LET page == pdf.pages[pageNum]
        lineSeq == TextLines(page.items)
        images == PageImages(page, pageNum).elements
    IN  /\ Len(pageElements) = Len(lineSeq) + Len(images)
        /\ {pageElements[n] : n \in 1..Len(pageElements)} =
               {lineSeq[n] : n \in 1..Len(lineSeq)} \cup {images[n] : n \in 1..Len(images)}

\* the open block is the text of the elements right before the current one
OpenBlockIsRunBefore ==
    /\ Len(currentBlockLines) < elemNo
    /\ \A n \in 1..Len(currentBlockLines) :
           LET el == pageElements[elemNo - Len(currentBlockLines) + n - 1]
           IN  el.type = "text" /\ el.text = currentBlockLines[n]

\* the state of the element loop of a page
PageInOrder ==
    (PdfRunning /\ pc = "elements") =>
        TopToBottom(pageElements) /\ LinesAndImagesMerged /\ OpenBlockIsRunBefore

\* C19: the doses are in the order of the pages and, in a page, of the
\* elements from the top down, text lines and images in one sequence: the
\* elements are taken in descending Y, a dose is pushed behind the doses before
\* it, from the lines right before the current element and then from the
\* element, and a page's last dose is pushed before the next page is read.
C19_DosesInPageAndYOrder ==
    /\ []PageInOrder
    /\ [][PdfRunning =>
           /\ Len(doses') >= Len(doses)
           /\ SubSeq(doses', 1, Len(doses)) = doses
           /\ pageNum' >= pageNum
           /\ ElementTurn => elemNo' = elemNo + 1 /\ pageNum' = pageNum
           /\ Len(doses') > Len(doses) => pc = "elements"
           /\ pageNum' > pageNum => currentBlockLines' = <<>>
           /\ pc' = "done" => result'.doses = doses]_vars

\* the image under the heading of the first page, and behind it the paragraph
\* of the second page
C19_Witness ==
    /\ PdfDone
    /\ Len(pdf.pages) = 2
    /\ Len(result.doses) = 2
    /\ StartsWith(result.doses[1], "Scope\n\n![Imagem do PDF](")
    /\ result.doses[2] = "Intro\n\nab cd."

----------------------------------------------------------------------------
(* Properties of the outline adapters *)

\* the lines an outline adapter renders, in their order; x is <<n>> or NaN
RenderedLines ==
    IF MindMapRunning
    THEN LET kept == SelectSeq(allLines, LAMBDA line : Trim(line.text) # "")
         IN  [n \in 1..Len(kept) |-> [text |-> kept[n].text, x |-> <<kept[n].x>>]]
    ELSE LET els == SortByPosition(SvgTextElements(svg))
         IN  [n \in 1..Len(els) |-> [text |-> els[n].text, x |-> els[n].x]]

\* the smallest x among the rendered lines
SmallestX ==
    LET xs == {RenderedLines[n].x[1] :
                  n \in {m \in 1..Len(RenderedLines) : RenderedLines[m].x # NaN}}
    IN  CHOOSE x \in xs : \A other \in xs : x <= other

\* d / 8 rounded to the nearest whole number, a half upwards
RoundedEighth(d) == CHOOSE k \in 0..(d \div 8 + 1) : 8 * k - 4 <= d /\ d < 8 * k + 4

OutlineDone == (MindMapRunning \/ SvgRunning) /\ pc = "done"

\* line n of the outline is the text behind 2 * round((x - minIndent) / 8) spaces
PrefixedByLevel(n) ==
    LET rendered == Split(result.mindMapText, "\n")
        line == RenderedLines[n]
    IN  rendered[n] = Spaces(2 * RoundedEighth(line.x[1] - SmallestX)) \o line.text

\* C20: in both outline adapters every rendered line is its text behind
\* 2 * round((x - minIndent) / 8) spaces, minIndent being the smallest x among
\* the lines with text of the whole document.
C20_PrefixIsTwicePerLevel ==
    (OutlineDone /\ Len(RenderedLines) > 0) =>
        /\ Len(Split(result.mindMapText, "\n")) = Len(RenderedLines)
        /\ \A n \in 1..Len(RenderedLines) :
               RenderedLines[n].x # NaN => PrefixedByLevel(n)

\* the warnings of the pages of the document that raise, in page order
PageFailureWarnings ==
    LET failed == SelectSeq([n \in 1..Len(pdf.pages) |-> n],
                            LAMBDA n : pdf.pages[n].raises)
    IN  [k \in 1..Len(failed) |-> [kind |-> "pageFailed", page |-> failed[k]]]

\* C21: with no line of text both outline adapters return the empty outline;
\* the SVG adapter returns with it the one warning that no text element was
\* found, the PDF adapter only the warnings of the pages that failed.
C21_EmptyOutlineWarnings ==
    (OutlineDone /\ Len(RenderedLines) = 0) =>
        /\ result.mindMapText = ""
        /\ SvgRunning => result.warnings = <<[kind |-> "noSvgText"]>>
        /\ MindMapRunning => result.warnings = PageFailureWarnings

\* a drawing whose only text nodes are blank
C21_Witness ==
    /\ OutlineDone /\ SvgRunning
    /\ Len(svg) = 2
    /\ result = [mindMapText |-> "", warnings |-> <<[kind |-> "noSvgText"]>>]

----------------------------------------------------------------------------
(* Properties of the lists of extractTextFromDocx *)

\* this step is the turn of the node loop on a UL or an OL
ListTurn ==
    /\ DocxRunning /\ pc = "nodes" /\ nodeNo <= Len(docx.children)
    /\ docx.children[nodeNo].tagName \in {"UL", "OL"}

\* the texts of the items of the list of this turn that are not empty
EmittedItems ==
    SelectSeq([n \in 1..Len(docx.children[nodeNo].items) |->
                  Trim(docx.children[nodeNo].items[n])],
              LAMBDA item : item # "")

\* the emitted items, a UL's behind "* " and an OL's numbered from 1 on
ConsecutivelyPrefixed ==
    [k \in 1..Len(EmittedItems) |->
        (IF docx.children[nodeNo].tagName = "UL" THEN "* " ELSE ToString(k) \o ". ")
            \o EmittedItems[k]]

\* C22: a UL or OL with an item that is not empty yields one dose, the items
\* that are not empty joined by newlines, each behind "* " in a UL and behind
\* "N. " in an OL, N counting the emitted items from 1; a list without such an
\* item yields no dose.
C22_ListDoseNumberedConsecutively ==
    [][ListTurn =>
           Pushed = IF Len(EmittedItems) > 0
                    THEN <<UnderStack(Join(ConsecutivelyPrefixed, "\n"))>>
                    ELSE <<>>]_vars

----------------------------------------------------------------------------
(* Properties of the ancestors and the content of the indentation mode *)

\* the index of the nearest line before the k-th branch start that is not
\* indented
NearestUnindented(ls, k) ==
    LET start == KthIndex(BranchStarts(ls), k)
        above == {n \in 1..(start - 1) : LeadingWs(ls[n]) = 0}
    IN  CHOOSE n \in above : \A m \in above : m <= n

\* C23: in the indentation mode every dose is one ancestor line, the nearest
\* line before the branch that is not indented, followed by the branch lines.
C23_ExactlyOneAncestor ==
    IndentationModeDone =>
        \A k \in 1..Len(result) :
            /\ \E n \in 1..(KthIndex(BranchStarts(lines), k) - 1) : LeadingWs(lines[n]) = 0
            /\ Split(result[k], "\n") =
                   <<lines[NearestUnindented(lines, k)]>> \o BranchPart(lines, k)

\* the branch under two unindented lines has the nearer one as its ancestor
C23_Witness ==
    /\ IndentationModeDone
    /\ lines = <<"a", "b ", "  c">>
    /\ result = <<"b \n  c">>

\* the lines of the doses returned
ReturnedLines == UNION {{Split(result[k], "\n")[n] : n \in 1..Len(Split(result[k], "\n"))} :
                           k \in 1..Len(result)}

\* the trimmed input was parsed as a heading outline
HeadingModeDone ==
    /\ ParseDone
    /\ Len(lines) > 0
    /\ \A n \in 1..Len(lines) : LeadingWs(lines[n]) = 0

\* C24: no content is lost: every line of the input with text, but for the
\* heading lines of the heading mode, is a line of a returned dose, in its
\* original text.
C24_NoContentLost ==
    /\ IndentationModeDone =>
           \A n \in 1..Len(lines) : Trim(lines[n]) # "" => lines[n] \in ReturnedLines
    /\ HeadingModeDone =>
           \A n \in 1..Len(lines) :
               (Trim(lines[n]) # "" /\ getHeadingLevel(lines[n]) = 0) =>
                   \E k \in 1..Len(result) : Contains(result[k], Trim(lines[n]))

\* every line of the k-th dose behind its first, the ancestor, is indented at
\* least as deep as the branches
BranchLinesIndented(k) ==
    LET doseLines == Split(result[k], "\n")
    IN  \A n \in 2..Len(doseLines) : LeadingWs(doseLines[n]) >= MinNonzeroIndent(lines)

\* the index of the input line that is the ancestor of the k-th dose
AncestorIndex(k) == NearestUnindented(lines, k)

\* the indices of the input lines that are branch lines of the k-th dose
BranchIndices(k) ==
    LET start == KthIndex(BranchStarts(lines), k)
    IN  start..(start + Len(BranchPart(lines, k)) - 1)

\* C25: in the indentation mode every line of a dose behind its ancestor is
\* indented at least as deep as the branch, and no line of the input is a
\* branch line of one dose and the ancestor of another.
C25_BranchHoldsNoTopLevelLine ==
    (IndentationModeDone /\ Len(result) = Cardinality(BranchStarts(lines))) =>
        \A k \in 1..Len(result) :
            /\ BranchLinesIndented(k)
            /\ \A j \in 1..Len(result) : AncestorIndex(j) \notin BranchIndices(k)

\* what the heading mode returns for the lines ls of the trimmed input
HeadingModeResult(ls) ==
    LET st == MarkdownLoop(ls, 1, [headingPath |-> <<>>, currentContentLines |-> <<>>,
                                   doses |-> <<>>])
    IN  MarkdownResult(st.doses \o ContentBlockDoses(st.headingPath, st.currentContentLines),
                       Join(ls, "\n"))

\* no line with text is indented
NoTextLineIndented ==
    \A n \in 1..Len(lines) : LeadingWs(lines[n]) > 0 => Trim(lines[n]) = ""

\* C26: the indentation mode is selected only when a line with text is
\* indented; an input whose only lines with leading whitespace are lines of
\* whitespace is parsed in the heading mode.
C26_BlankIndentKeepsHeadingMode ==
    (ParseDone /\ Len(lines) > 0 /\ NoTextLineIndented) =>
        result = HeadingModeResult(lines)

----------------------------------------------------------------------------
(* Properties of the review queue of App *)

\* C27, as stated: after handleFinishReview every dose the user marked for
\* review during the session is present in reviewQueue.
C27_MarkedDosesStayQueued ==
    [][handleFinishReview =>
          \A contentId \in marked :
              \E k \in 1..Len(reviewQueue') : reviewQueue'[k].contentId = contentId]_vars

\* C28, as stated: every entry of reviewQueue and of dailyReviews refers to a
\* subject and a content item that exist in subjects.
C28_NoDanglingReferences ==
    AppRunning =>
        /\ \A k \in 1..Len(reviewQueue) : Hydratable(subjects, reviewQueue[k])
        /\ \A k \in 1..Len(dailyReviews) : Hydratable(subjects, dailyReviews[k])

----------------------------------------------------------------------------
(* Properties of useStudyStreak *)

\* the date before an ISO date
DayBefore(date) == <<date[1] - 1>>

\* C29, as stated: the first call of markAsCompleted on a day sets streak to
\* the previous streak plus one when lastReviewed is the day before and to 1
\* otherwise, and records the day; a further call on that day changes nothing.
C29_StreakOncePerDay ==
    [][StreakMarkAsCompleted =>
          IF streakData.lastReviewed = IsoDate(now)
          THEN streakData' = streakData
          ELSE streakData' =
                   [streak |-> IF streakData.lastReviewed = DayBefore(IsoDate(now))
                               THEN streakData.streak + 1 ELSE 1,
                    lastReviewed |-> IsoDate(now)]]_vars

----------------------------------------------------------------------------
(* Properties of the study aids of DailyReviewCard *)

\* C30, as stated: isLoading is true whenever a request started by a click on
\* a GeminiAidButton is in flight.
C30_LoadingWhileInFlight == (AidRunning /\ Len(inFlight) > 0) => isLoading

====
